---- MODULE Spec2Model ----
(***************************************************************************)
(* Primer analysis and design engine of SidLab-Tools (PrimerAnalysis page). *)
(*                                                                         *)
(* Numbers.  The source computes in IEEE doubles.  The model is fixed       *)
(* point: temperatures, GC percent and molecular weight are integers in    *)
(* hundredths (centi-degrees, centi-percent, centi-Dalton), dH and dS are  *)
(* integers in tenths, scores are integers in thousandths.  A quotient is  *)
(* rounded to the nearest unit (RoundDiv).  Configuration temperatures     *)
(* are given in hundredths of a degree too, so "minTm - 5" is minTm - 500. *)
(*                                                                         *)
(* Strings are sequences of one-character strings.                         *)
(***************************************************************************)
EXTENDS Integers, Sequences, FiniteSets, TLC

VARIABLES
    \* PrimerAnalysis, analysis mode
    fwdInput, revInput, primerConc, fwd, rev,
    \* one call of designPrimers
    template, config, pc, seq, i, l,
    forwardCandidates, reverseCandidates, fwdScanned, revScanned,
    topFwd, topRev, pairs, result,
    \* PrimerAnalysis, design mode
    templateInput, designConfig, designResults, isDesigning, hasSearched,
    selectedPairId, timeouts, inCallback,
    \* Admin panel, the banners of the dashboard, and the browser's storage
    isAuthenticated, passwordInput, authError, sessionAuth,
    activeZone, selectedImage, currentBanner, status, reading,
    localStorage, adImage,
    \* LabTimer: the clock, useCountdown and useIntervalTimer
    now, countdown, interval

analysisVars == <<fwdInput, revInput, primerConc, fwd, rev>>
designVars == <<template, config, pc, seq, i, l, forwardCandidates,
                reverseCandidates, fwdScanned, revScanned, topFwd, topRev,
                pairs, result>>
pageVars == <<templateInput, designConfig, designResults, isDesigning,
              hasSearched, selectedPairId, timeouts, inCallback>>
adminVars == <<isAuthenticated, passwordInput, authError, sessionAuth,
               activeZone, selectedImage, currentBanner, status, reading,
               localStorage, adImage>>
timerVars == <<now, countdown, interval>>
vars == <<fwdInput, revInput, primerConc, fwd, rev,
          template, config, pc, seq, i, l, forwardCandidates,
          reverseCandidates, fwdScanned, revScanned, topFwd, topRev,
          pairs, result,
          templateInput, designConfig, designResults, isDesigning,
          hasSearched, selectedPairId, timeouts, inCallback,
          isAuthenticated, passwordInput, authError, sessionAuth,
          activeZone, selectedImage, currentBanner, status, reading,
          localStorage, adImage,
          now, countdown, interval>>

----------------------------------------------------------------------------
(* Bounds of the model *)

\* longest raw text typed into the forward / reverse primer boxes
MaxRawLen == 3
\* longest raw template of the exhaustive template set
MaxTemplateLen == 4
\* most file reads of the Admin panel that are in flight at once
MaxReading == 1
\* stands for a double of magnitude >= 2^54, where x + 1 = x
Absorbing == 1000

----------------------------------------------------------------------------
(* Arithmetic helpers *)

Abs(x) == IF x < 0 THEN -x ELSE x

Min(a, b) == IF a < b THEN a ELSE b

\* a / b rounded to the nearest integer, b # 0 (the quotient and the
\* remainder are used, so that no intermediate value exceeds |a|)
RoundDiv(a, b) ==
    LET n == IF b < 0 THEN -a ELSE a
        d == Abs(b)
        m == Abs(n)
        q == (m \div d) + (IF 2 * (m % d) >= d THEN 1 ELSE 0)
    IN  IF n >= 0 THEN q ELSE -q

\* the ++ of a loop counter held in a double: absorbed at large magnitudes
Inc(x) == IF Abs(x) >= Absorbing THEN x ELSE x + 1

----------------------------------------------------------------------------
(* Characters and strings *)

LowerCase == {"a", "c", "g", "t", "x"}
UpperCase == {"A", "C", "G", "T", "X", "N"}

IsLetter(ch) == ch \in LowerCase \cup UpperCase

\* toUpperCase of one character
toUpperCase(ch) ==
    CASE ch = "a" -> "A"
      [] ch = "c" -> "C"
      [] ch = "g" -> "G"
      [] ch = "t" -> "T"
      [] ch = "x" -> "X"
      [] OTHER -> ch

\* String.prototype.toUpperCase
UpperOf(s) == [k \in 1..Len(s) |-> toUpperCase(s[k])]

\* a faulty variant of cleanSequence: non-letters are kept
cleanSequence_keepsNonLetters(s) == UpperOf(s)

\* a faulty variant of cleanSequence: the case is kept
cleanSequence_keepsCase(s) == SelectSeq(s, IsLetter)

\* seq.replace(/[^a-zA-Z]/g, '').toUpperCase()
cleanSequence(s) == UpperOf(SelectSeq(s, IsLetter))

\* a faulty variant of getComplement: the map has no entry for C
getComplement_dropsC(base) ==
    CASE base = "A" -> "T"
      [] base = "T" -> "A"
      [] base = "G" -> "C"
      [] base = "U" -> "A"
      [] OTHER -> "N"

\* map[base] || 'N'
getComplement(base) ==
    CASE base = "A" -> "T"
      [] base = "T" -> "A"
      [] base = "G" -> "C"
      [] base = "C" -> "G"
      [] base = "U" -> "A"
      [] OTHER -> "N"

\* seq.split('').reverse().map(getComplement).join('')
reverseComplement(s) == [k \in 1..Len(s) |-> getComplement(s[Len(s) + 1 - k])]

\* String.prototype.substring(a, b): both ends clamped to [0, length],
\* swapped when a > b; positions are 0-based, b exclusive
substring(s, a, b) ==
    LET ca == IF a < 0 THEN 0 ELSE Min(a, Len(s))
        cb == IF b < 0 THEN 0 ELSE Min(b, Len(s))
    IN  SubSeq(s, Min(ca, cb) + 1, IF ca < cb THEN cb ELSE ca)

\* String.prototype.endsWith for a one-character argument
endsWith(s, ch) == Len(s) > 0 /\ s[Len(s)] = ch

\* (s.match(/X/g) || []).length
CountOf(s, ch) == Cardinality({k \in 1..Len(s) : s[k] = ch})

----------------------------------------------------------------------------
(* Sequence property calculator *)

\* SantaLucia 1998 parameters, dH and dS in tenths
NN_PARAMS ==
    [p \in {<<"A","A">>, <<"T","T">>, <<"A","T">>, <<"T","A">>,
            <<"C","A">>, <<"T","G">>, <<"G","T">>, <<"A","C">>,
            <<"C","T">>, <<"A","G">>, <<"G","A">>, <<"T","C">>,
            <<"C","G">>, <<"G","C">>, <<"G","G">>, <<"C","C">>} |->
        CASE p = <<"A","A">> \/ p = <<"T","T">> -> [dH |-> -79, dS |-> -222]
          [] p = <<"A","T">> -> [dH |-> -72, dS |-> -204]
          [] p = <<"T","A">> -> [dH |-> -72, dS |-> -213]
          [] p = <<"C","A">> \/ p = <<"T","G">> -> [dH |-> -85, dS |-> -227]
          [] p = <<"G","T">> \/ p = <<"A","C">> -> [dH |-> -84, dS |-> -224]
          [] p = <<"C","T">> \/ p = <<"A","G">> -> [dH |-> -78, dS |-> -210]
          [] p = <<"G","A">> \/ p = <<"T","C">> -> [dH |-> -82, dS |-> -222]
          [] p = <<"C","G">> -> [dH |-> -106, dS |-> -272]
          [] p = <<"G","C">> -> [dH |-> -98, dS |-> -244]
          [] p = <<"G","G">> \/ p = <<"C","C">> -> [dH |-> -80, dS |-> -199]]

NN_INIT_GC == [dH |-> 1, dS |-> -28]
NN_INIT_AT == [dH |-> 23, dS |-> 41]

\* the initiation term chosen by a terminal base
InitTerm(base) == IF base = "G" \/ base = "C" THEN NN_INIT_GC ELSE NN_INIT_AT

\* the table entry of the window starting at k, zero when the table has none
StackTerm(s, k) ==
    IF <<s[k], s[k + 1]>> \in DOMAIN NN_PARAMS
    THEN NN_PARAMS[<<s[k], s[k + 1]>>]
    ELSE [dH |-> 0, dS |-> 0]

RECURSIVE StackSum(_, _)
\* sum of the table entries of the windows k .. Len(s)-1
StackSum(s, k) ==
    IF k >= Len(s) THEN [dH |-> 0, dS |-> 0]
    ELSE LET rest == StackSum(s, k + 1)
             here == StackTerm(s, k)
         IN  [dH |-> here.dH + rest.dH, dS |-> here.dS + rest.dS]

\* a faulty variant of Accumulated: a single base pays one initiation term
Accumulated_endsOnce(cleanSeq) ==
    LET first == InitTerm(cleanSeq[1])
        last == IF Len(cleanSeq) = 1 THEN [dH |-> 0, dS |-> 0]
                ELSE InitTerm(cleanSeq[Len(cleanSeq)])
        stack == StackSum(cleanSeq, 1)
    IN  [dH |-> first.dH + last.dH + stack.dH,
         dS |-> first.dS + last.dS + stack.dS]

\* lines 81-91: dH and dS after the two initiation terms and the loop over
\* the windows, for a cleaned sequence over ATGC
Accumulated(cleanSeq) ==
    LET first == InitTerm(cleanSeq[1])
        last == InitTerm(cleanSeq[Len(cleanSeq)])
        stack == StackSum(cleanSeq, 1)
    IN  [dH |-> first.dH + last.dH + stack.dH,
         dS |-> first.dS + last.dS + stack.dS]

\* 16.6 * Math.log10(DEFAULT_CONC_NA_MM / 1000) = -21.597, in hundredths
SaltCorr == -2160

\* R * Math.log(primerConcNm * 1e-9 / 4) with R = 1.987, in hundredths,
\* at the concentrations of the model (Math.log(0) is -Infinity: see NNKelvin)
LogTerm(conc) ==
    CASE conc = 500 -> -3158
      [] conc = 50 -> -3616
      [] conc = 1000 -> -3021

\* (dH * 1000) / (dS + term) in hundredths of a Kelvin; with conc = 0 the
\* divisor is -Infinity and the quotient is zero
NNKelvin(dH, dS, conc) ==
    IF conc = 0 THEN 0
    ELSE RoundDiv(dH * 1000000, dS * 10 + LogTerm(conc))

NoError == "undefined"

\* a faulty variant of HasNonATGC: X is taken for a base
HasNonATGC_allowsX(cleanSeq) ==
    \E k \in 1..Len(cleanSeq) : cleanSeq[k] \notin {"A", "T", "G", "C", "X"}

\* /[^ATGC]/.test(cleanSeq)
HasNonATGC(cleanSeq) ==
    \E k \in 1..Len(cleanSeq) : cleanSeq[k] \notin {"A", "T", "G", "C"}

\* the record returned for an empty cleaned sequence
EmptyResult(rawSeq) ==
    [seq |-> rawSeq, cleanSeq |-> <<>>, length |-> 0, gc |-> 0, tmBasic |-> 0,
     tmNN |-> 0, molecularWeight |-> 0, isValid |-> FALSE, error |-> NoError]

\* a faulty variant of NonATGCResult: the error tag is left out
NonATGCResult_noTag(rawSeq, cleanSeq) ==
    [seq |-> rawSeq, cleanSeq |-> cleanSeq, length |-> Len(cleanSeq), gc |-> 0,
     tmBasic |-> 0, tmNN |-> 0, molecularWeight |-> 0, isValid |-> FALSE,
     error |-> NoError]

\* a faulty variant of NonATGCResult: the simple Tm is computed before the test
NonATGCResult_keepsTm(rawSeq, cleanSeq) ==
    [seq |-> rawSeq, cleanSeq |-> cleanSeq, length |-> Len(cleanSeq), gc |-> 0,
     tmBasic |-> 200 * Len(cleanSeq), tmNN |-> 0, molecularWeight |-> 0,
     isValid |-> FALSE, error |-> "Contains non-ATGC"]

\* the record returned for a cleaned sequence with a character outside ATGC
NonATGCResult(rawSeq, cleanSeq) ==
    [seq |-> rawSeq, cleanSeq |-> cleanSeq, length |-> Len(cleanSeq), gc |-> 0,
     tmBasic |-> 0, tmNN |-> 0, molecularWeight |-> 0, isValid |-> FALSE,
     error |-> "Contains non-ATGC"]

\* a faulty variant of ValidResult: the GC percentage counts G only
ValidResult_gcFromG(rawSeq, cleanSeq, conc) ==
    LET length == Len(cleanSeq)
        g == CountOf(cleanSeq, "G")
        c == CountOf(cleanSeq, "C")
        a == CountOf(cleanSeq, "A")
        t == CountOf(cleanSeq, "T")
        gcPercent == RoundDiv(g * 10000, length)
        mw == a * 31320 + c * 28920 + g * 32920 + t * 30420 - 6196
        tmBasic == IF length < 14
                   THEN ((a + t) * 2 + (g + c) * 4) * 100
                   ELSE 6490 + RoundDiv(4100 * (g + c) - 67240, length)
        nn == Accumulated(cleanSeq)
        tmNN == NNKelvin(nn.dH, nn.dS, conc) - 27315 + SaltCorr
    IN  [seq |-> rawSeq, cleanSeq |-> cleanSeq, length |-> length,
         gc |-> gcPercent, tmBasic |-> tmBasic, tmNN |-> tmNN,
         molecularWeight |-> mw, isValid |-> TRUE, error |-> NoError]

\* the record returned for a sequence over ATGC
ValidResult(rawSeq, cleanSeq, conc) ==
    LET length == Len(cleanSeq)
        g == CountOf(cleanSeq, "G")
        c == CountOf(cleanSeq, "C")
        a == CountOf(cleanSeq, "A")
        t == CountOf(cleanSeq, "T")
        gcPercent == RoundDiv((g + c) * 10000, length)
        mw == a * 31320 + c * 28920 + g * 32920 + t * 30420 - 6196
        tmBasic == IF length < 14
                   THEN ((a + t) * 2 + (g + c) * 4) * 100
                   ELSE 6490 + RoundDiv(4100 * (g + c) - 67240, length)
        nn == Accumulated(cleanSeq)
        tmNN == NNKelvin(nn.dH, nn.dS, conc) - 27315 + SaltCorr
    IN  [seq |-> rawSeq, cleanSeq |-> cleanSeq, length |-> length,
         gc |-> gcPercent, tmBasic |-> tmBasic, tmNN |-> tmNN,
         molecularWeight |-> mw, isValid |-> TRUE, error |-> NoError]

calculatePrimerProps(rawSeq, primerConcNm) ==
    LET cleanSeq == cleanSequence(rawSeq)
    IN  IF cleanSeq = <<>> THEN EmptyResult(rawSeq)
        ELSE IF HasNonATGC(cleanSeq) THEN NonATGCResult(rawSeq, cleanSeq)
        ELSE ValidResult(rawSeq, cleanSeq, primerConcNm)

----------------------------------------------------------------------------
(* PrimerAnalysis, analysis mode: the two primer boxes and the shared      *)
(* primer concentration; fwd and rev are the memoised results.             *)

\* the characters typed into the forward box (lower case, a letter that is no
\* base, a non-letter) and into the reverse box (upper case, a non-letter)
FwdChars == {"a", "g", "X", "1"}
RevChars == {"A", "G", "T", "1"}

RECURSIVE SeqsUpTo(_, _)
\* the sequences over S of length at most n
SeqsUpTo(S, n) ==
    IF n = 0 THEN {<<>>}
    ELSE LET shorter == SeqsUpTo(S, n - 1)
         IN  shorter \cup {Append(s, ch) : s \in {t \in shorter : Len(t) = n - 1}, ch \in S}

PrimerConcs == {0, 50, 500}

AnalysisInit ==
    /\ fwdInput = <<>>
    /\ revInput = <<>>
    /\ primerConc = 500
    /\ fwd = calculatePrimerProps(<<>>, 500)
    /\ rev = calculatePrimerProps(<<>>, 500)

\* the texts an edit of a box holding cur can leave in it: a character typed
\* at the end, or the last character deleted
Edits(cur, chars) ==
    {Append(cur, ch) : ch \in IF Len(cur) < MaxRawLen THEN chars ELSE {}}
        \cup (IF cur = <<>> THEN {} ELSE {SubSeq(cur, 1, Len(cur) - 1)})

\* onChange of the forward box: setFwdInput, then the memo recomputes fwd
SetFwdInput ==
    \E s \in Edits(fwdInput, FwdChars) :
        /\ fwdInput' = s
        /\ fwd' = calculatePrimerProps(s, primerConc)
        /\ UNCHANGED <<revInput, rev, primerConc>>
        /\ UNCHANGED designVars
        /\ UNCHANGED adminVars
        /\ UNCHANGED pageVars
        /\ UNCHANGED timerVars

\* onChange of the reverse box
SetRevInput ==
    \E s \in Edits(revInput, RevChars) :
        /\ revInput' = s
        /\ rev' = calculatePrimerProps(s, primerConc)
        /\ UNCHANGED <<fwdInput, fwd, primerConc>>
        /\ UNCHANGED designVars
        /\ UNCHANGED adminVars
        /\ UNCHANGED pageVars
        /\ UNCHANGED timerVars

\* onChange of the concentration input: both memos recompute
SetPrimerConc ==
    \E c \in PrimerConcs :
        /\ primerConc' = c
        /\ fwd' = calculatePrimerProps(fwdInput, c)
        /\ rev' = calculatePrimerProps(revInput, c)
        /\ UNCHANGED <<fwdInput, revInput>>
        /\ UNCHANGED designVars
        /\ UNCHANGED adminVars
        /\ UNCHANGED pageVars
        /\ UNCHANGED timerVars


AnalysisNext == SetFwdInput \/ SetRevInput \/ SetPrimerConc

----------------------------------------------------------------------------
(* Primer pair designer: one call of designPrimers(template, config),      *)
(* stepped through its loops.  pc is the position in the function:         *)
(*   start     before line 111                                             *)
(*   fwdOuter  at the test of the outer loop of line 119                   *)
(*   fwdInner  at the test of the inner loop of line 120                   *)
(*   revOuter  at the test of the outer loop of line 130                   *)
(*   revInner  at the test of the inner loop of line 131                   *)
(*   pair      at line 144, both scans done                                *)
(*   rank      at line 183, all pairs constructed                          *)
(*   done      returned; result is the returned array                      *)
(* fwdScanned and revScanned record the (i, l) for which a candidate was   *)
(* handed to calculatePrimerProps.                                         *)

MAX_CANDIDATES == 300
MAX_RESULTS == 20

\* a faulty variant of SCAN_CONC: the concentration of the page is used
SCAN_CONC_ofPage == primerConc

SCAN_CONC == 500

\* CandidatePrimer: { ...props, start, end, strand }
Candidate(props, start, end, strand) ==
    [seq |-> props.seq, cleanSeq |-> props.cleanSeq, length |-> props.length,
     gc |-> props.gc, tmBasic |-> props.tmBasic, tmNN |-> props.tmNN,
     molecularWeight |-> props.molecularWeight, isValid |-> props.isValid,
     error |-> props.error, start |-> start, end |-> end, strand |-> strand]

\* a faulty variant of LooseOk: the scan applies the strict window
LooseOk_strict(props, cfg) ==
    /\ props.isValid
    /\ props.tmNN >= cfg.minTm
    /\ props.tmNN <= cfg.maxTm

\* the pre-filter of lines 124 and 138
LooseOk(props, cfg) ==
    /\ props.isValid
    /\ props.tmNN >= cfg.minTm - 500
    /\ props.tmNN <= cfg.maxTm + 500

\* Array.prototype.sort((a, b) => key(a) - key(b)) with keys ks: ascending and
\* stable, so element k moves behind the elements of smaller key and the
\* earlier elements of equal key (rank @@ <<>> is rank, tabulated once)
StableSort(s, ks) ==
    LET n == Len(s)
        rank == [k \in 1..n |->
                    Cardinality({j \in 1..n : ks[j] < ks[k] \/ (ks[j] = ks[k] /\ j < k)}) + 1]
                @@ <<>>
    IN  [p \in 1..n |-> s[CHOOSE k \in 1..n : rank[k] = p]]

\* Array.prototype.slice(0, n)
slice0(s, n) == SubSeq(s, 1, Min(n, Len(s)))

\* a faulty variant of SortByTmDistance: the lists are cut as scanned
SortByTmDistance_unsorted(cands, cfg) == cands

\* lines 146-147: candidates.sort by |tmNN - optTm|
SortByTmDistance(cands, cfg) ==
    StableSort(cands, [k \in 1..Len(cands) |-> Abs(cands[k].tmNN - cfg.optTm)])

\* the GC-clamp penalty of lines 167-168
ClampPenalty(p) == IF endsWith(p.seq, "G") \/ endsWith(p.seq, "C") THEN 0 ELSE 2000

\* a faulty variant of Score: the Tm difference is counted once
Score_diffOnce(f, r, cfg) ==
    LET tmDiff == Abs(f.tmNN - r.tmNN)
        tmPenalty == Abs(f.tmNN - cfg.optTm) + Abs(r.tmNN - cfg.optTm)
        gcPenalty == Abs(f.gc - 5000) + Abs(r.gc - 5000)
    IN  10 * tmPenalty + 10 * tmDiff + gcPenalty + ClampPenalty(f) + ClampPenalty(r)

\* lines 161-170, in thousandths
Score(f, r, cfg) ==
    LET tmDiff == Abs(f.tmNN - r.tmNN)
        tmPenalty == Abs(f.tmNN - cfg.optTm) + Abs(r.tmNN - cfg.optTm)
        diffPenalty == tmDiff * 2
        gcPenalty == Abs(f.gc - 5000) + Abs(r.gc - 5000)
    IN  10 * tmPenalty + 10 * diffPenalty + gcPenalty + ClampPenalty(f) + ClampPenalty(r)

\* a faulty variant of StrictOk: the widened window of the scan is used again
StrictOk_widened(p, cfg) == ~(p.tmNN < cfg.minTm - 500 \/ p.tmNN > cfg.maxTm + 500)

\* the strict window of lines 158-159
StrictOk(p, cfg) == ~(p.tmNN < cfg.minTm \/ p.tmNN > cfg.maxTm)

\* a faulty variant of PairOk: a product of two bases is skipped
PairOk_gapRequired(f, r, cfg) ==
    LET pSize == r.end - f.start + 1
    IN  /\ ~(r.end <= f.start + 1)
        /\ ~(pSize < cfg.minProd \/ pSize > cfg.maxProd)
        /\ StrictOk(f, cfg)
        /\ StrictOk(r, cfg)
        /\ ~(Abs(f.tmNN - r.tmNN) > 500)

\* the filters of lines 154-162: none of the continue statements is taken
PairOk(f, r, cfg) ==
    LET pSize == r.end - f.start + 1
    IN  /\ ~(r.end <= f.start)
        /\ ~(pSize < cfg.minProd \/ pSize > cfg.maxProd)
        /\ StrictOk(f, cfg)
        /\ StrictOk(r, cfg)
        /\ ~(Abs(f.tmNN - r.tmNN) > 500)

\* the record pushed at lines 172-179
MakePair(f, r, cfg) ==
    [id |-> ToString(f.start) \o "-" \o ToString(r.end),
     forward |-> f, reverse |-> r,
     productSize |-> r.end - f.start + 1,
     tmDiff |-> Abs(f.tmNN - r.tmNN),
     score |-> Score(f, r, cfg)]

\* lines 152-181: for f of topFwd, for r of topRev, in that order
BuildPairs(fs, rs, cfg) ==
    LET nf == Len(fs)
        nr == Len(rs)
        combos == [k \in 1..(nf * nr) |->
                      <<fs[((k - 1) \div nr) + 1], rs[((k - 1) % nr) + 1]>>]
        Keep(c) == PairOk(c[1], c[2], cfg)
        kept == SelectSeq(combos, Keep)
    IN  [k \in 1..Len(kept) |-> MakePair(kept[k][1], kept[k][2], cfg)]

\* a faulty variant of SortByScore: the array is left as constructed
SortByScore_unsorted(ps) == ps

\* a faulty variant of SortByScore: the comparator is b.score - a.score
SortByScore_descending(ps) == StableSort(ps, [k \in 1..Len(ps) |-> -ps[k].score])

\* line 183: pairs.sort((a, b) => a.score - b.score)
SortByScore(ps) == StableSort(ps, [k \in 1..Len(ps) |-> ps[k].score])

\* a faulty variant of TopResults: the cut is left out
TopResults_uncut(sorted) == sorted

\* line 183: .slice(0, 20)
TopResults(sorted) == slice0(sorted, MAX_RESULTS)

----------------------------------------------------------------------------
(* The inputs of the model *)

TemplateChars == {"A", "G", "c", "1"}

LongTemplates ==
    { <<"G", "G", "G", "G", "G", "G", "G", "G">>,
      <<"A", "G", "c", "A", "1", "G", "A", "C", "T", "g">>,
      <<"a", "C", "X", "G", "A", " ", "t", "C", "A">>,
      <<"A", "c", "A", "G", "A", "c">>,
      <<"G", "C", "A", "A", "T", "C">> }

Templates == SeqsUpTo(TemplateChars, MaxTemplateLen) \cup LongTemplates

MinProds == {2, 4}
MaxProds == {3, 8}
LenRanges == {<<1, 2>>, <<-1, 1>>, <<-Absorbing, 1>>}
TmWindows == {<<-19000, -18000>>, <<-31000, -15000>>}
OptTms == {-18500}

GridConfigs ==
    {[minProd |-> a, maxProd |-> b, minLen |-> lr[1], maxLen |-> lr[2],
      minTm |-> w[1], maxTm |-> w[2], optTm |-> o] :
        a \in MinProds, b \in MaxProds, lr \in LenRanges, w \in TmWindows, o \in OptTms}

\* a configuration whose longest primer is longer than its smallest product,
\* with a Tm window that holds 0, the tmNN of an invalid record
WideConfigs ==
    {[minProd |-> 2, maxProd |-> 8, minLen |-> 1, maxLen |-> 3,
      minTm |-> -18000, maxTm |-> 400, optTm |-> -10000]}

Configs == GridConfigs \cup WideConfigs

DesignInit ==
    /\ template \in Templates
    /\ config \in Configs
    /\ pc = "start"
    /\ seq = <<>>
    /\ i = 0
    /\ l = 0
    /\ forwardCandidates = <<>>
    /\ reverseCandidates = <<>>
    /\ fwdScanned = {}
    /\ revScanned = {}
    /\ topFwd = <<>>
    /\ topRev = <<>>
    /\ pairs = <<>>
    /\ result = <<>>

\* templates and configurations that give more than MAX_CANDIDATES candidates
\* on each strand: 32 bases, primers of 1 to 12 bases, a Tm window that
\* holds every valid candidate
CapTemplates ==
    { <<"A","C","G","T","T","G","C","A","A","G","C","T","A","G","G","C",
        "T","T","A","C","G","A","T","C","C","G","A","T","A","G","C","A">>,
      <<"G","G","G","G","G","G","G","G","G","G","G","G","G","G","G","G",
        "G","G","G","G","G","G","G","G","G","G","G","G","G","G","G","G">> }

CapConfigs ==
    {[minProd |-> 2, maxProd |-> 3, minLen |-> 1, maxLen |-> 12,
      minTm |-> -60000, maxTm |-> 20000, optTm |-> o] : o \in {-5000, -20000}}

CapInit ==
    /\ template \in CapTemplates
    /\ config \in CapConfigs
    /\ pc = "start"
    /\ seq = <<>>
    /\ i = 0
    /\ l = 0
    /\ forwardCandidates = <<>>
    /\ reverseCandidates = <<>>
    /\ fwdScanned = {}
    /\ revScanned = {}
    /\ topFwd = <<>>
    /\ topRev = <<>>
    /\ pairs = <<>>
    /\ result = <<>>

\* a faulty variant of TooShort: the test is left out
TooShort_never(len, cfg) == FALSE

\* the early return of line 113
TooShort(len, cfg) == len < cfg.minProd

\* lines 111-113
Start ==
    /\ pc = "start"
    /\ seq' = cleanSequence(template)
    /\ IF TooShort(Len(seq'), config)
       THEN pc' = "done" /\ result' = <<>>
       ELSE pc' = "fwdOuter" /\ UNCHANGED result
    /\ UNCHANGED <<topFwd, topRev, template, config, i, l, forwardCandidates, reverseCandidates,
                   fwdScanned, revScanned, pairs>>
    /\ UNCHANGED analysisVars
    /\ UNCHANGED adminVars
    /\ UNCHANGED pageVars
    /\ UNCHANGED timerVars

\* line 119: i < len - config.minProd
FwdOuter ==
    /\ pc = "fwdOuter"
    /\ IF i < Len(seq) - config.minProd
       THEN pc' = "fwdInner" /\ l' = config.minLen /\ UNCHANGED i
       ELSE pc' = "revOuter" /\ i' = config.minProd /\ UNCHANGED l
    /\ UNCHANGED <<topFwd, topRev, template, config, seq, forwardCandidates, reverseCandidates,
                   fwdScanned, revScanned, pairs, result>>
    /\ UNCHANGED analysisVars
    /\ UNCHANGED adminVars
    /\ UNCHANGED pageVars
    /\ UNCHANGED timerVars

\* lines 120-127: one pass of the inner loop, or its end
FwdInner ==
    /\ pc = "fwdInner"
    /\ IF l <= config.maxLen /\ ~(i + l > Len(seq))
       THEN LET sub == substring(seq, i, i + l)
                props == calculatePrimerProps(sub, SCAN_CONC)
            IN  /\ fwdScanned' = fwdScanned \cup {<<i, l>>}
                /\ forwardCandidates' =
                       IF LooseOk(props, config)
                       THEN Append(forwardCandidates,
                                   Candidate(props, i, i + l - 1, "sense"))
                       ELSE forwardCandidates
                /\ l' = Inc(l)
                /\ UNCHANGED <<pc, i>>
       ELSE /\ pc' = "fwdOuter"
            /\ i' = Inc(i)
            /\ UNCHANGED <<l, fwdScanned, forwardCandidates>>
    /\ UNCHANGED <<topFwd, topRev, template, config, seq, reverseCandidates, revScanned, pairs, result>>
    /\ UNCHANGED analysisVars
    /\ UNCHANGED adminVars
    /\ UNCHANGED pageVars
    /\ UNCHANGED timerVars

\* line 130: i < len
RevOuter ==
    /\ pc = "revOuter"
    /\ IF i < Len(seq)
       THEN pc' = "revInner" /\ l' = config.minLen
       ELSE pc' = "pair" /\ UNCHANGED l
    /\ UNCHANGED <<topFwd, topRev, template, config, seq, i, forwardCandidates, reverseCandidates,
                   fwdScanned, revScanned, pairs, result>>
    /\ UNCHANGED analysisVars
    /\ UNCHANGED adminVars
    /\ UNCHANGED pageVars
    /\ UNCHANGED timerVars

\* lines 131-141: one pass of the inner loop, or its end
RevInner ==
    /\ pc = "revInner"
    /\ IF l <= config.maxLen
       THEN /\ IF i - l < 0
               THEN UNCHANGED <<revScanned, reverseCandidates>>
               ELSE LET start == i - l + 1
                        end == i
                        templateSegment == substring(seq, start, end + 1)
                        primerSeq == reverseComplement(templateSegment)
                        props == calculatePrimerProps(primerSeq, SCAN_CONC)
                    IN  /\ revScanned' = revScanned \cup {<<i, l>>}
                        /\ reverseCandidates' =
                               IF LooseOk(props, config)
                               THEN Append(reverseCandidates,
                                           Candidate(props, start, end, "antisense"))
                               ELSE reverseCandidates
            /\ l' = Inc(l)
            /\ UNCHANGED <<pc, i>>
       ELSE /\ pc' = "revOuter"
            /\ i' = Inc(i)
            /\ UNCHANGED <<l, revScanned, reverseCandidates>>
    /\ UNCHANGED <<topFwd, topRev, template, config, seq, forwardCandidates, fwdScanned, pairs, result>>
    /\ UNCHANGED analysisVars
    /\ UNCHANGED adminVars
    /\ UNCHANGED pageVars
    /\ UNCHANGED timerVars

\* lines 144-181: both lists sorted in place, their first MAX_CANDIDATES
\* entries copied to topFwd and topRev, and these paired
Pair ==
    /\ pc = "pair"
    /\ forwardCandidates' = SortByTmDistance(forwardCandidates, config)
    /\ reverseCandidates' = SortByTmDistance(reverseCandidates, config)
    /\ topFwd' = slice0(forwardCandidates', MAX_CANDIDATES)
    /\ topRev' = slice0(reverseCandidates', MAX_CANDIDATES)
    /\ pairs' = BuildPairs(topFwd', topRev', config)
    /\ pc' = "rank"
    /\ UNCHANGED <<template, config, seq, i, l, fwdScanned, revScanned, result>>
    /\ UNCHANGED analysisVars
    /\ UNCHANGED adminVars
    /\ UNCHANGED pageVars
    /\ UNCHANGED timerVars

\* line 183: return pairs.sort(...).slice(0, 20)
Rank ==
    /\ pc = "rank"
    /\ pairs' = SortByScore(pairs)
    /\ result' = TopResults(pairs')
    /\ pc' = "done"
    /\ UNCHANGED <<topFwd, topRev, template, config, seq, i, l, forwardCandidates, reverseCandidates,
                   fwdScanned, revScanned>>
    /\ UNCHANGED analysisVars
    /\ UNCHANGED adminVars
    /\ UNCHANGED pageVars
    /\ UNCHANGED timerVars

DesignNext == Start \/ FwdOuter \/ FwdInner \/ RevOuter \/ RevInner \/ Pair \/ Rank

----------------------------------------------------------------------------
(* PrimerAnalysis, design mode: the template box, the four inputs of the   *)
(* configuration, the Generate button and the list of results.  timeouts   *)
(* holds the callbacks handed to setTimeout that have not run yet, each    *)
(* with the templateInput and designConfig its closure captured;           *)
(* inCallback is true while such a callback runs.  The callback calls      *)
(* designPrimers, whose steps are the actions above; no event handler runs *)
(* before the callback has returned.                                       *)

\* null, and the absence of a storage entry
Null == "null"

\* the initial designConfig of line 220
DefaultConfig ==
    [minProd |-> 100, maxProd |-> 1000, minLen |-> 18, maxLen |-> 24,
     minTm |-> 5500, maxTm |-> 6500, optTm |-> 6000]

\* texts for the template box: none, one too short for the button, one of
\* 20 bases
PageTemplates ==
    { <<>>,
      <<"A", "C", "G">>,
      <<"A","C","G","C","T","G","C","A","A","G",
        "C","C","A","G","G","C","T","G","A","C">> }

\* numbers typed into Min Prod, Max Prod, Min Tm and Max Tm; the last
\* Min Prod stands for a number such as -1e17
PageMinProds == {100, 19, -2 * Absorbing}
PageMaxProds == {1000}
PageMinTms == {5500}
PageMaxTms == {6500}

PageInit ==
    /\ templateInput = <<>>
    /\ designConfig = DefaultConfig
    /\ designResults = <<>>
    /\ isDesigning = FALSE
    /\ hasSearched = FALSE
    /\ selectedPairId = Null
    /\ timeouts = <<>>
    /\ inCallback = FALSE

\* line 296: onChange of the template box
SetTemplateInput ==
    /\ ~inCallback
    /\ \E t \in PageTemplates : templateInput' = t
    /\ UNCHANGED <<designConfig, designResults, isDesigning, hasSearched,
                   selectedPairId, timeouts, inCallback>>
    /\ UNCHANGED <<analysisVars, designVars, adminVars, timerVars>>

\* lines 306-309: onChange of one of the four inputs, safeNum of its text
SetDesignConfig ==
    /\ ~inCallback
    /\ \/ \E v \in PageMinProds : designConfig' = [designConfig EXCEPT !.minProd = v]
       \/ \E v \in PageMaxProds : designConfig' = [designConfig EXCEPT !.maxProd = v]
       \/ \E v \in PageMinTms : designConfig' = [designConfig EXCEPT !.minTm = v]
       \/ \E v \in PageMaxTms : designConfig' = [designConfig EXCEPT !.maxTm = v]
    /\ UNCHANGED <<templateInput, designResults, isDesigning, hasSearched,
                   selectedPairId, timeouts, inCallback>>
    /\ UNCHANGED <<analysisVars, designVars, adminVars, timerVars>>

\* line 314: disabled={isDesigning || templateInput.length < 20}
GenerateDisabled == isDesigning \/ Len(templateInput) < 20

\* a click on Generate: handleDesign, lines 247-252 and 257
HandleDesign ==
    /\ ~inCallback
    /\ ~GenerateDisabled
    /\ templateInput # <<>>
    /\ isDesigning' = TRUE
    /\ hasSearched' = TRUE
    /\ designResults' = <<>>
    /\ timeouts' = Append(timeouts, [template |-> templateInput, config |-> designConfig])
    /\ UNCHANGED <<templateInput, designConfig, selectedPairId, inCallback>>
    /\ UNCHANGED <<analysisVars, designVars, adminVars, timerVars>>

\* the timer of line 257 expires: the callback starts and calls
\* designPrimers(templateInput, designConfig) with the values it captured
TimeoutFire ==
    /\ ~inCallback
    /\ timeouts # <<>>
    /\ inCallback' = TRUE
    /\ timeouts' = Tail(timeouts)
    /\ template' = Head(timeouts).template
    /\ config' = Head(timeouts).config
    /\ pc' = "start"
    /\ seq' = <<>>
    /\ i' = 0
    /\ l' = 0
    /\ forwardCandidates' = <<>>
    /\ reverseCandidates' = <<>>
    /\ fwdScanned' = {}
    /\ revScanned' = {}
    /\ topFwd' = <<>>
    /\ topRev' = <<>>
    /\ pairs' = <<>>
    /\ result' = <<>>
    /\ UNCHANGED <<templateInput, designConfig, designResults, isDesigning,
                   hasSearched, selectedPairId>>
    /\ UNCHANGED <<analysisVars, adminVars, timerVars>>

\* lines 254-256, after designPrimers has returned
TimeoutEnd ==
    /\ inCallback
    /\ pc = "done"
    /\ designResults' = result
    /\ selectedPairId' = IF Len(result) > 0 THEN result[1].id ELSE selectedPairId
    /\ isDesigning' = FALSE
    /\ inCallback' = FALSE
    /\ UNCHANGED <<templateInput, designConfig, hasSearched, timeouts>>
    /\ UNCHANGED <<analysisVars, designVars, adminVars, timerVars>>

\* line 378: a click on a row of the list
SelectRow ==
    /\ ~inCallback
    /\ \E k \in 1..Len(designResults) : selectedPairId' = designResults[k].id
    /\ UNCHANGED <<templateInput, designConfig, designResults, isDesigning,
                   hasSearched, timeouts, inCallback>>
    /\ UNCHANGED <<analysisVars, designVars, adminVars, timerVars>>

PageNext ==
    \/ SetTemplateInput
    \/ SetDesignConfig
    \/ HandleDesign
    \/ TimeoutFire
    \/ DesignNext
    \/ TimeoutEnd
    \/ SelectRow

----------------------------------------------------------------------------
(* Admin panel (pages/Admin.tsx) and the banners of the dashboard          *)
(* (components/AdBanner.tsx).  Both work on the browser's localStorage.    *)
(* reading counts, per file content, the FileReader reads in flight.       *)

ACCESS_CODE == "6188"

AdZones == {"hero", "middle", "footer"}

\* ZONES of Admin.tsx: label and storage key of a zone
ZONES ==
    [z \in AdZones |->
        CASE z = "hero" -> [label |-> "Hero Top", storageKey |-> "labsuite_ad_hero"]
          [] z = "middle" -> [label |-> "Mid-Page", storageKey |-> "labsuite_ad_middle"]
          [] z = "footer" -> [label |-> "Footer", storageKey |-> "labsuite_ad_footer"]]

\* a faulty variant of ZONE_CONFIG: the footer banner reads the key of the hero
ZONE_CONFIG_footerReadsHero ==
    [z \in AdZones |->
        CASE z = "hero" -> [label |-> "Hero Banner", key |-> "labsuite_ad_hero"]
          [] z = "middle" -> [label |-> "Mid-Page Banner", key |-> "labsuite_ad_middle"]
          [] z = "footer" -> [label |-> "Footer Banner", key |-> "labsuite_ad_hero"]]

\* ZONE_CONFIG of AdBanner.tsx: label and storage key of a zone
ZONE_CONFIG ==
    [z \in AdZones |->
        CASE z = "hero" -> [label |-> "Hero Banner", key |-> "labsuite_ad_hero"]
          [] z = "middle" -> [label |-> "Mid-Page Banner", key |-> "labsuite_ad_middle"]
          [] z = "footer" -> [label |-> "Footer Banner", key |-> "labsuite_ad_footer"]]

StorageKeys == {"labsuite_ad_hero", "labsuite_ad_middle", "labsuite_ad_footer"}

\* the data URLs of the images of the model, and the files that hold them
Images == {"data:A", "data:B"}
Files ==
    { [size |-> 1024, data |-> "data:A"],
      [size |-> 2 * 1024 * 1024, data |-> "data:B"],
      [size |-> 2 * 1024 * 1024 + 1, data |-> "data:A"],
      [size |-> 5 * 1024 * 1024, data |-> "data:B"] }

\* the access codes typed into the login form
Codes == {"6188", "0000"}

NoStatus == [type |-> Null, msg |-> ""]

\* localStorage.getItem
getItem(key) == localStorage[key]

\* a faulty variant of TooLarge: the limit is ten times as high
TooLarge_limitTimesTen(size) == size > 20 * 1024 * 1024

\* line 72: file.size > 2 * 1024 * 1024
TooLarge(size) == size > 2 * 1024 * 1024

ReadingCount == reading["data:A"] + reading["data:B"]

AdminInit ==
    /\ isAuthenticated = FALSE
    /\ passwordInput = ""
    /\ authError = ""
    /\ sessionAuth = FALSE
    /\ activeZone = "hero"
    /\ selectedImage = Null
    /\ currentBanner = Null
    /\ status = NoStatus
    /\ reading = [img \in Images |-> 0]
    /\ localStorage = [k \in StorageKeys |-> Null]
    /\ adImage = [z \in AdZones |-> Null]

\* onChange of the access code input of the login form
SetPasswordInput ==
    /\ ~isAuthenticated
    /\ \E code \in Codes : passwordInput' = code
    /\ UNCHANGED <<isAuthenticated, authError, sessionAuth, activeZone, selectedImage,
                   currentBanner, status, reading, localStorage, adImage>>
    /\ UNCHANGED <<analysisVars, designVars, pageVars, timerVars>>

\* handleLogin; on success the effect of line 35 runs loadBannerForZone
HandleLogin ==
    /\ ~isAuthenticated
    /\ IF passwordInput = ACCESS_CODE
       THEN /\ isAuthenticated' = TRUE
            /\ sessionAuth' = TRUE
            /\ authError' = ""
            /\ currentBanner' = getItem(ZONES[activeZone].storageKey)
            /\ selectedImage' = getItem(ZONES[activeZone].storageKey)
            /\ status' = NoStatus
       ELSE /\ authError' = "Incorrect access code."
            /\ UNCHANGED <<isAuthenticated, sessionAuth, currentBanner, selectedImage, status>>
    /\ UNCHANGED <<passwordInput, activeZone, reading, localStorage, adImage>>
    /\ UNCHANGED <<analysisVars, designVars, pageVars, timerVars>>

\* handleLogout
HandleLogout ==
    /\ isAuthenticated
    /\ isAuthenticated' = FALSE
    /\ sessionAuth' = FALSE
    /\ passwordInput' = ""
    /\ UNCHANGED <<authError, activeZone, selectedImage, currentBanner, status,
                   reading, localStorage, adImage>>
    /\ UNCHANGED <<analysisVars, designVars, pageVars, timerVars>>

\* a click on another zone: setActiveZone, then the effect of line 35 runs
\* loadBannerForZone
SetActiveZone ==
    /\ isAuthenticated
    /\ \E z \in AdZones \ {activeZone} :
        /\ activeZone' = z
        /\ currentBanner' = getItem(ZONES[z].storageKey)
        /\ selectedImage' = getItem(ZONES[z].storageKey)
        /\ status' = NoStatus
    /\ UNCHANGED <<isAuthenticated, passwordInput, authError, sessionAuth, reading,
                   localStorage, adImage>>
    /\ UNCHANGED <<analysisVars, designVars, pageVars, timerVars>>

\* handleImageUpload with a file chosen
HandleImageUpload(file) ==
    /\ isAuthenticated
    /\ IF TooLarge(file.size)
       THEN /\ status' = [type |-> "error",
                          msg |-> "Image is too large for local storage demo. Please use an image under 2MB."]
            /\ UNCHANGED reading
       ELSE /\ ReadingCount < MaxReading
            /\ reading' = [reading EXCEPT ![file.data] = @ + 1]
            /\ UNCHANGED status
    /\ UNCHANGED <<isAuthenticated, passwordInput, authError, sessionAuth, activeZone,
                   selectedImage, currentBanner, localStorage, adImage>>
    /\ UNCHANGED <<analysisVars, designVars, pageVars, timerVars>>

\* reader.onloadend: the read of img ends, with its data URL or, when the read
\* failed, with null
ReaderLoadEnd ==
    /\ \E img \in Images :
        /\ reading[img] > 0
        /\ reading' = [reading EXCEPT ![img] = @ - 1]
        /\ \E res \in {img, Null} : selectedImage' = res
    /\ status' = NoStatus
    /\ UNCHANGED <<isAuthenticated, passwordInput, authError, sessionAuth, activeZone,
                   currentBanner, localStorage, adImage>>
    /\ UNCHANGED <<analysisVars, designVars, pageVars, timerVars>>

\* ZONES.find(z => z.id === activeZone).storageKey
SaveKey(zone) == ZONES[zone].storageKey

\* handleSave with an image selected; setItem stores it or throws when the
\* quota is exceeded
HandleSave ==
    /\ isAuthenticated
    /\ selectedImage # Null
    /\ \E stored \in BOOLEAN :
        IF stored
        THEN /\ localStorage' = [localStorage EXCEPT ![SaveKey(activeZone)] = selectedImage]
             /\ currentBanner' = selectedImage
             /\ status' = [type |-> "success",
                           msg |-> ZONES[activeZone].label \o " updated successfully!"]
        ELSE /\ status' = [type |-> "error",
                           msg |-> "Storage quota exceeded. Try a smaller image."]
             /\ UNCHANGED <<localStorage, currentBanner>>
    /\ UNCHANGED <<isAuthenticated, passwordInput, authError, sessionAuth, activeZone,
                   selectedImage, reading, adImage>>
    /\ UNCHANGED <<analysisVars, designVars, pageVars, timerVars>>

\* handleRemove
HandleRemove ==
    /\ isAuthenticated
    /\ localStorage' = [localStorage EXCEPT ![SaveKey(activeZone)] = Null]
    /\ selectedImage' = Null
    /\ currentBanner' = Null
    /\ status' = [type |-> "success", msg |-> ZONES[activeZone].label \o " removed."]
    /\ UNCHANGED <<isAuthenticated, passwordInput, authError, sessionAuth, activeZone,
                   reading, adImage>>
    /\ UNCHANGED <<analysisVars, designVars, pageVars, timerVars>>

\* loadAd of the AdBanner of a zone: on mount and on a storage event
LoadAd(zone) ==
    /\ adImage' = [adImage EXCEPT ![zone] =
                      IF getItem(ZONE_CONFIG[zone].key) # Null
                      THEN getItem(ZONE_CONFIG[zone].key)
                      ELSE Null]
    /\ UNCHANGED <<isAuthenticated, passwordInput, authError, sessionAuth, activeZone,
                   selectedImage, currentBanner, status, reading, localStorage>>
    /\ UNCHANGED <<analysisVars, designVars, pageVars, timerVars>>

Upload == \E file \in Files : HandleImageUpload(file)

BannerLoad == \E zone \in AdZones : LoadAd(zone)

AdminNext ==
    \/ SetPasswordInput
    \/ HandleLogin
    \/ HandleLogout
    \/ SetActiveZone
    \/ Upload
    \/ ReaderLoadEnd
    \/ HandleSave
    \/ HandleRemove
    \/ BannerLoad

\* the zone for which the user picks each image of the model: the file of
\* data:A is chosen only while hero is active, the file of data:B only while
\* middle is active
ZoneOf(img) == IF img = "data:A" THEN "hero" ELSE "middle"

\* handleImageUpload with a file picked for the active zone
UploadOwn ==
    \E file \in Files : ZoneOf(file.data) = activeZone /\ HandleImageUpload(file)

\* the Admin panel with each file uploaded in its own zone
RaceNext ==
    \/ SetPasswordInput
    \/ HandleLogin
    \/ HandleLogout
    \/ SetActiveZone
    \/ UploadOwn
    \/ ReaderLoadEnd
    \/ HandleSave
    \/ HandleRemove

----------------------------------------------------------------------------
(* Specifications *)

----------------------------------------------------------------------------
(* LabTimer.tsx.  now is Date.now() in milliseconds.  countdown holds the  *)
(* state and the refs of useCountdown, interval those of useIntervalTimer  *)
(* together with the three settings of IntervalView.  rafRef is TRUE while *)
(* the frame requested last is pending: requestAnimationFrame(update) sets *)
(* it, cancelAnimationFrame(rafRef.current) and the run of the callback    *)
(* clear it.  Every handler is followed by the render and the effects it   *)
(* causes.                                                                 *)

Max(a, b) == IF a > b THEN a ELSE b

\* the largest value of the clock, and the steps by which it advances
\* between two events
MaxNow == 45000
TickSteps == {2500, 5000}

\* time passes
Tick ==
    /\ \E d \in TickSteps : now + d <= MaxNow /\ now' = now + d
    /\ UNCHANGED <<countdown, interval>>
    /\ UNCHANGED <<analysisVars, designVars, pageVars, adminVars>>

\* line 362: useCountdown(300000)
initialDurationMs == 300000

\* lines 71-76
CountdownInit ==
    countdown = [timeLeft |-> initialDurationMs, isRunning |-> FALSE,
                 isComplete |-> FALSE, endTimeRef |-> 0, rafRef |-> FALSE]

\* lines 78-89 without the clamp of line 79
update_unclamped(cd, t) ==
    LET remaining == cd.endTimeRef - t
    IN  IF remaining <= 0
        THEN [cd EXCEPT !.timeLeft = remaining, !.isRunning = FALSE,
                        !.isComplete = TRUE, !.rafRef = FALSE]
        ELSE [cd EXCEPT !.timeLeft = remaining, !.rafRef = TRUE]

\* lines 78-89: update, run at time t
update(cd, t) ==
    LET remaining == Max(0, cd.endTimeRef - t)
    IN  IF remaining <= 0
        THEN [cd EXCEPT !.timeLeft = remaining, !.isRunning = FALSE,
                        !.isComplete = TRUE, !.rafRef = FALSE]
        ELSE [cd EXCEPT !.timeLeft = remaining, !.rafRef = TRUE]

\* lines 91-99: start, called at time t
start(cd, t) ==
    IF cd.timeLeft <= 0 THEN cd
    ELSE IF ~cd.isRunning
         THEN [cd EXCEPT !.endTimeRef = t + cd.timeLeft, !.isRunning = TRUE,
                         !.isComplete = FALSE, !.rafRef = TRUE]
         ELSE cd

\* lines 101-106
pause(cd) ==
    IF cd.isRunning
    THEN [cd EXCEPT !.isRunning = FALSE, !.rafRef = FALSE]
    ELSE cd

\* lines 108-113: reset(newDuration), with the arguments of the call as a
\* sequence: <<>> for reset(), <<ms>> for reset(ms)
reset(cd, arguments) ==
    [cd EXCEPT !.isRunning = FALSE, !.isComplete = FALSE, !.rafRef = FALSE,
               !.timeLeft = IF arguments = <<>> THEN initialDurationMs
                            ELSE arguments[1]]

\* lines 116-118
setDuration(cd, ms) == reset(cd, <<ms>>)

\* values of (inputMin * 60 + inputSec) * 1000 of line 366; both inputs are
\* kept at 0 or above by lines 408 and 419
Durations == {0, 5000, 10000}

\* the pending frame runs update
CountdownUpdate ==
    /\ countdown.rafRef
    /\ countdown' = update(countdown, now)
    /\ UNCHANGED <<now, interval>>
    /\ UNCHANGED <<analysisVars, designVars, pageVars, adminVars>>

\* the functions returned by useCountdown, called in any order
CountdownStart ==
    /\ countdown' = start(countdown, now)
    /\ UNCHANGED <<now, interval>>
    /\ UNCHANGED <<analysisVars, designVars, pageVars, adminVars>>

CountdownPause ==
    /\ countdown' = pause(countdown)
    /\ UNCHANGED <<now, interval>>
    /\ UNCHANGED <<analysisVars, designVars, pageVars, adminVars>>

\* line 392: onClick={() => reset()}
CountdownReset ==
    /\ countdown' = reset(countdown, <<>>)
    /\ UNCHANGED <<now, interval>>
    /\ UNCHANGED <<analysisVars, designVars, pageVars, adminVars>>

\* lines 365-367: handleSet
CountdownSetDuration ==
    /\ \E ms \in Durations : countdown' = setDuration(countdown, ms)
    /\ UNCHANGED <<now, interval>>
    /\ UNCHANGED <<analysisVars, designVars, pageVars, adminVars>>

CountdownNext ==
    \/ Tick
    \/ CountdownUpdate
    \/ CountdownStart
    \/ CountdownPause
    \/ CountdownReset
    \/ CountdownSetDuration

\* the largest settings of IntervalView the model reaches with the + buttons
MaxWorkSec == 10
MaxRestSec == 5
MaxCycles == 3

\* the arguments of line 437
workMs(iv) == iv.workSec * 1000
restMs(iv) == iv.restSec * 1000
totalCycles(iv) == iv.cycles

\* lines 141-147: the effect that copies props and state into stateRef
SyncRef(iv) ==
    [iv EXCEPT !.stateRef = [phase |-> iv.phase, cycle |-> iv.currentCycle,
                             workMs |-> workMs(iv), restMs |-> restMs(iv),
                             totalCycles |-> totalCycles(iv)]]

\* IntervalView with the settings s, before start: lines 131-138
IdleInterval(s) ==
    SyncRef([workSec |-> s.workSec, restSec |-> s.restSec, cycles |-> s.cycles,
             phase |-> "IDLE", currentCycle |-> 1,
             timeLeft |-> s.workSec * 1000,
             endTimeRef |-> 0, rafRef |-> FALSE,
             stateRef |-> <<>>])

\* lines 433-435 and 131-138: the view as mounted
IntervalInit ==
    interval = IdleInterval([workSec |-> 30, restSec |-> 10, cycles |-> 5])

\* settings reached with the - buttons of lines 499, 508 and 517
Settings ==
    [workSec : {5, 10}, restSec : {0, 5}, cycles : {1, 2, 3}]

\* the view after the settings were lowered and Reset was clicked
IntervalSet == \E s \in Settings : interval = IdleInterval(s)

\* lines 152-178 with the test of line 157 passing on the last cycle too
Transition_restAfterLast(iv, t) ==
    LET ref == iv.stateRef
    IN  IF ref.phase = "WORK"
        THEN IF ref.cycle <= ref.totalCycles
             THEN [iv EXCEPT !.phase = "REST", !.stateRef.phase = "REST",
                             !.endTimeRef = t + ref.restMs, !.rafRef = TRUE]
             ELSE [iv EXCEPT !.phase = "FINISHED", !.rafRef = FALSE]
        ELSE IF ref.phase = "REST"
        THEN LET nextCycle == ref.cycle + 1
             IN  [iv EXCEPT !.currentCycle = nextCycle, !.phase = "WORK",
                            !.stateRef.cycle = nextCycle,
                            !.stateRef.phase = "WORK",
                            !.endTimeRef = t + ref.workMs, !.rafRef = TRUE]
        ELSE [iv EXCEPT !.rafRef = FALSE]

\* lines 152-178: the transition logic of update, run at time t
Transition(iv, t) ==
    LET ref == iv.stateRef
    IN  IF ref.phase = "WORK"
        THEN IF ref.cycle < ref.totalCycles
             THEN [iv EXCEPT !.phase = "REST", !.stateRef.phase = "REST",
                             !.endTimeRef = t + ref.restMs, !.rafRef = TRUE]
             ELSE [iv EXCEPT !.phase = "FINISHED", !.rafRef = FALSE]
        ELSE IF ref.phase = "REST"
        THEN LET nextCycle == ref.cycle + 1
             IN  [iv EXCEPT !.currentCycle = nextCycle, !.phase = "WORK",
                            !.stateRef.cycle = nextCycle,
                            !.stateRef.phase = "WORK",
                            !.endTimeRef = t + ref.workMs, !.rafRef = TRUE]
        ELSE [iv EXCEPT !.rafRef = FALSE]

\* lines 149-182: the pending frame runs update
IntervalUpdate ==
    /\ interval.rafRef
    /\ LET remaining == Max(0, interval.endTimeRef - now)
           shown == [interval EXCEPT !.timeLeft = remaining]
       IN  interval' =
               SyncRef(IF remaining <= 0
                       THEN Transition(shown, now)
                       ELSE [shown EXCEPT !.rafRef = TRUE])
    /\ UNCHANGED <<now, countdown>>
    /\ UNCHANGED <<analysisVars, designVars, pageVars, adminVars>>

\* line 441: isRunning of IntervalView
ViewIsRunning(iv) == iv.phase = "WORK" \/ iv.phase = "REST"

\* lines 471-475: the Start/Resume button is rendered
StartOffered(iv) == ~ViewIsRunning(iv) /\ iv.phase # "FINISHED"

\* lines 475-479: the Pause button is rendered
PauseOffered(iv) == ~StartOffered(iv) /\ iv.phase # "FINISHED"

\* lines 184-197: start, by a click on the Start/Resume button
IntervalStart ==
    /\ StartOffered(interval)
    /\ interval' =
           SyncRef(IF interval.phase = "IDLE" \/ interval.phase = "FINISHED"
                   THEN [interval EXCEPT !.phase = "WORK", !.currentCycle = 1,
                                         !.stateRef.phase = "WORK",
                                         !.stateRef.cycle = 1,
                                         !.endTimeRef = now + workMs(interval),
                                         !.rafRef = TRUE]
                   ELSE [interval EXCEPT !.endTimeRef = now + interval.timeLeft,
                                         !.rafRef = TRUE])
    /\ UNCHANGED <<now, countdown>>
    /\ UNCHANGED <<analysisVars, designVars, pageVars, adminVars>>

\* lines 199-204: pause, by a click on the Pause button
IntervalPause ==
    /\ PauseOffered(interval)
    /\ interval' =
           IF interval.phase = "WORK" \/ interval.phase = "REST"
           THEN [interval EXCEPT !.rafRef = FALSE]
           ELSE interval
    /\ UNCHANGED <<now, countdown>>
    /\ UNCHANGED <<analysisVars, designVars, pageVars, adminVars>>

\* lines 206-211: reset, by a click on the button of line 482
IntervalReset ==
    /\ interval' =
           SyncRef([interval EXCEPT !.rafRef = FALSE, !.phase = "IDLE",
                                    !.currentCycle = 1,
                                    !.timeLeft = workMs(interval)])
    /\ UNCHANGED <<now, countdown>>
    /\ UNCHANGED <<analysisVars, designVars, pageVars, adminVars>>

\* lines 499 and 501: the - and + buttons of the work duration
SetWorkSec ==
    /\ \E v \in {Max(5, interval.workSec - 5), interval.workSec + 5} :
           /\ v <= Max(MaxWorkSec, interval.workSec)
           /\ interval' = SyncRef([interval EXCEPT !.workSec = v])
    /\ UNCHANGED <<now, countdown>>
    /\ UNCHANGED <<analysisVars, designVars, pageVars, adminVars>>

\* lines 508 and 510: the - and + buttons of the rest duration
SetRestSec ==
    /\ \E v \in {Max(0, interval.restSec - 5), interval.restSec + 5} :
           /\ v <= Max(MaxRestSec, interval.restSec)
           /\ interval' = SyncRef([interval EXCEPT !.restSec = v])
    /\ UNCHANGED <<now, countdown>>
    /\ UNCHANGED <<analysisVars, designVars, pageVars, adminVars>>

\* lines 517 and 519: the - and + buttons of the cycles
SetCycles ==
    /\ \E v \in {Max(1, interval.cycles - 1), interval.cycles + 1} :
           /\ v <= Max(MaxCycles, interval.cycles)
           /\ interval' = SyncRef([interval EXCEPT !.cycles = v])
    /\ UNCHANGED <<now, countdown>>
    /\ UNCHANGED <<analysisVars, designVars, pageVars, adminVars>>

\* a run without pause, reset or change of the settings
RunNext == Tick \/ IntervalStart \/ IntervalUpdate

IntervalNext ==
    \/ Tick
    \/ IntervalUpdate
    \/ IntervalStart
    \/ IntervalPause
    \/ IntervalReset
    \/ SetWorkSec
    \/ SetRestSec
    \/ SetCycles

TimerInit == now = 0 /\ CountdownInit /\ IntervalInit

\* the designer at rest while the analysis page is used
DesignIdle ==
    /\ template = <<>>
    /\ config = [minProd |-> 100, maxProd |-> 1000, minLen |-> 18, maxLen |-> 24,
                 minTm |-> 5500, maxTm |-> 6500, optTm |-> 6000]
    /\ pc = "done"
    /\ seq = <<>>
    /\ i = 0
    /\ l = 0
    /\ forwardCandidates = <<>>
    /\ reverseCandidates = <<>>
    /\ fwdScanned = {}
    /\ revScanned = {}
    /\ topFwd = <<>>
    /\ topRev = <<>>
    /\ pairs = <<>>
    /\ result = <<>>

AnalysisSpecInit == AnalysisInit /\ DesignIdle /\ PageInit /\ AdminInit /\ TimerInit

\* the analysis page: the two primer boxes and the concentration
AnalysisSpec == AnalysisSpecInit /\ [][AnalysisNext]_vars

DesignSpecInit == AnalysisInit /\ DesignInit /\ PageInit /\ AdminInit /\ TimerInit

\* one call of designPrimers on any template and configuration of the model
DesignSpec == DesignSpecInit /\ [][DesignNext]_vars

\* the page with a primer in each box, before a design of one of the long
\* templates is run
ConcSpecInit ==
    /\ fwdInput = <<"a", "g">>
    /\ revInput = <<"G", "T">>
    /\ primerConc = 500
    /\ fwd = calculatePrimerProps(fwdInput, primerConc)
    /\ rev = calculatePrimerProps(revInput, primerConc)
    /\ DesignInit
    /\ template \in LongTemplates
    /\ PageInit
    /\ AdminInit
    /\ TimerInit

ConcNext == SetPrimerConc \/ DesignNext

\* calls of designPrimers while the primer concentration of the page is edited
ConcSpec == ConcSpecInit /\ [][ConcNext]_vars

CapSpecInit == AnalysisInit /\ CapInit /\ PageInit /\ AdminInit /\ TimerInit

\* one call of designPrimers on a template with more than 300 candidates
CapSpec == CapSpecInit /\ [][DesignNext]_vars

AdminSpecInit == AnalysisInit /\ DesignIdle /\ PageInit /\ AdminInit /\ TimerInit

PageSpecInit == AnalysisInit /\ DesignIdle /\ PageInit /\ AdminInit /\ TimerInit

\* the design mode of the page
PageSpec == PageSpecInit /\ [][PageNext]_vars

\* the Admin panel and the banners of the dashboard
AdminSpec == AdminSpecInit /\ [][AdminNext]_vars

\* the Admin panel, every file uploaded while its own zone is active
RaceSpec == AdminSpecInit /\ [][RaceNext]_vars

CountdownSpecInit == AnalysisInit /\ DesignIdle /\ PageInit /\ AdminInit /\ TimerInit

\* the countdown timer
CountdownSpec == CountdownSpecInit /\ [][CountdownNext]_vars

IntervalSpecInit ==
    /\ AnalysisInit /\ DesignIdle /\ PageInit /\ AdminInit
    /\ now = 0 /\ CountdownInit /\ IntervalSet

\* the interval timer
IntervalSpec == IntervalSpecInit /\ [][IntervalNext]_vars

\* the interval timer, started and left alone
RunSpec == IntervalSpecInit /\ [][RunNext]_vars

\* the application as a whole
Init == AnalysisInit /\ DesignInit /\ PageInit /\ AdminInit /\ TimerInit
Next == AnalysisNext \/ PageNext \/ AdminNext \/ CountdownNext \/ IntervalNext
Spec == Init /\ [][Next]_vars


----------------------------------------------------------------------------
(* Properties *)

Range(s) == {s[k] : k \in 1..Len(s)}

\* the letters of a raw text, uppercased: what the text is up to case and
\* non-letter characters
Canonical(raw) == [k \in 1..Len(SelectSeq(raw, IsLetter)) |->
                      toUpperCase(SelectSeq(raw, IsLetter)[k])]

Bases == {"A", "T", "G", "C"}

\* C1 (pairing invariant): every returned pair has reverse.end > forward.start,
\* productSize = reverse.end - forward.start + 1 within [minProd, maxProd],
\* both tmNN within [minTm, maxTm], and tmDiff = |f.tmNN - r.tmNN| <= 5 degrees.
C1_PairingInvariant ==
    pc = "done" =>
        \A k \in 1..Len(result) :
            LET p == result[k]
            IN  /\ p.reverse.end > p.forward.start
                /\ p.productSize = p.reverse.end - p.forward.start + 1
                /\ config.minProd <= p.productSize
                /\ p.productSize <= config.maxProd
                /\ config.minTm <= p.forward.tmNN /\ p.forward.tmNN <= config.maxTm
                /\ config.minTm <= p.reverse.tmNN /\ p.reverse.tmNN <= config.maxTm
                /\ p.tmDiff = Abs(p.forward.tmNN - p.reverse.tmNN)
                /\ p.tmDiff <= 500

\* a call that returned pairs although the scan had retained a candidate of
\* each strand outside the strict window, and a pair of Tm difference > 0
C1_Witness ==
    /\ pc = "done"
    /\ result # <<>>
    /\ \E c \in Range(forwardCandidates) : c.tmNN > config.maxTm \/ c.tmNN < config.minTm
    /\ \E c \in Range(reverseCandidates) : c.tmNN > config.maxTm \/ c.tmNN < config.minTm
    /\ \E p \in Range(result) : p.tmDiff > 0

\* C2 (ranking order): the returned array is sorted by ascending score.
C2_RankingOrder ==
    pc = "done" =>
        \A k \in 1..(Len(result) - 1) : result[k].score <= result[k + 1].score

\* a returned array of at least three pairs with different scores
C2_Witness ==
    /\ pc = "done"
    /\ Len(result) >= 3
    /\ result[1].score < result[2].score
    /\ result[2].score < result[Len(result)].score

\* C3 (result cap): never more than 20 pairs are returned.
C3_ResultCap == Len(result) <= 20

\* a call that constructed more than 20 pairs and returned 20
C3_Witness == pc = "done" /\ Len(pairs) > 20 /\ Len(result) = 20

\* C4 (top-20 selection): the returned pairs are constructed pairs, each once;
\* no omitted constructed pair has a score strictly lower than a returned one;
\* with at most 20 constructed pairs all of them are returned.
C4_TopSelection ==
    pc = "done" =>
        /\ Range(result) \subseteq Range(pairs)
        /\ Cardinality(Range(result)) = Len(result)
        /\ Len(result) = Min(20, Len(pairs))
        /\ \A p \in Range(pairs) \ Range(result) :
               \A q \in Range(result) : p.score >= q.score
        /\ Len(pairs) <= 20 => Range(result) = Range(pairs)

\* a call with more than 20 constructed pairs, an omitted one scoring
\* strictly higher than every returned one
C4_Witness ==
    /\ pc = "done"
    /\ Len(pairs) > 20
    /\ \E p \in Range(pairs) \ Range(result) :
           \A q \in Range(result) : p.score > q.score

\* C5 (short template): when the cleaned template is shorter than minProd the
\* call returns the empty array at once: no candidate is ever enumerated.
C5_ShortTemplate ==
    Len(Canonical(template)) < config.minProd =>
        /\ pc \in {"start", "done"}
        /\ result = <<>>
        /\ fwdScanned = {} /\ revScanned = {}
        /\ forwardCandidates = <<>> /\ reverseCandidates = <<>>
        /\ pairs = <<>>

\* a returned call on a raw template at least minProd long whose cleaned
\* form is shorter than minProd
C5_Witness ==
    /\ pc = "done"
    /\ Len(template) >= config.minProd
    /\ Len(Canonical(template)) < config.minProd
    /\ Len(Canonical(template)) > 0
    /\ result = <<>>

\* C6 (totality): every call of designPrimers terminates and returns a value.
\* A call is deterministic, so it returns exactly when it never reaches a
\* position from which its next step leaves the whole state as it is: a call
\* that has not returned can always take a step that changes the state.
C6_Terminates == pc = "done" \/ ENABLED <<DesignNext>>_designVars

\* C7 (validity): isValid holds exactly when the cleaned sequence is non-empty
\* and consists of A, T, G, C only.
C7_Validity ==
    /\ fwd.isValid <=>
           (Canonical(fwdInput) # <<>> /\ Range(Canonical(fwdInput)) \subseteq Bases)
    /\ rev.isValid <=>
           (Canonical(revInput) # <<>> /\ Range(Canonical(revInput)) \subseteq Bases)

\* an invalid forward primer with a letter outside ATGC beside a valid
\* reverse primer typed with a non-letter
C7_Witness ==
    /\ "X" \in Range(fwdInput) /\ "a" \in Range(fwdInput) /\ ~fwd.isValid
    /\ "G" \in Range(revInput) /\ "1" \in Range(revInput) /\ rev.isValid

\* C8 as stated (zeroed invalid record): every numeric field of an invalid
\* record is zero.
C8_AllNumericZero ==
    ~fwd.isValid =>
        /\ fwd.length = 0 /\ fwd.gc = 0 /\ fwd.molecularWeight = 0
        /\ fwd.tmBasic = 0 /\ fwd.tmNN = 0

\* C8 amended: on an invalid record gc, molecularWeight, tmBasic and tmNN are
\* zero, and length is the number of letters of the input (zero in the empty
\* case, the cleaned length in the non-ATGC case).
C8_ZeroedExceptLength ==
    /\ ~fwd.isValid =>
          /\ fwd.gc = 0 /\ fwd.molecularWeight = 0
          /\ fwd.tmBasic = 0 /\ fwd.tmNN = 0
          /\ fwd.length = Len(Canonical(fwdInput))
    /\ ~rev.isValid =>
          /\ rev.gc = 0 /\ rev.molecularWeight = 0
          /\ rev.tmBasic = 0 /\ rev.tmNN = 0
          /\ rev.length = Len(Canonical(revInput))

\* an invalid record of the non-ATGC case with two letters beside one of the
\* empty case
C8_Witness ==
    /\ ~fwd.isValid /\ fwd.length = 2
    /\ ~rev.isValid /\ rev.length = 0 /\ revInput # <<>>

Properties(r) == <<r.length, r.gc, r.molecularWeight, r.tmBasic, r.tmNN, r.isValid>>

\* C10 (cleaning invariance and purity): two raw inputs that differ only in
\* letter case or in non-letter characters, analysed at the same concentration,
\* have the same length, gc, molecularWeight, tmBasic, tmNN and isValid; and
\* the result held for a box is the result of calling again on what the box
\* and the concentration hold now.
C10_CleaningInvariance ==
    /\ Canonical(fwdInput) = Canonical(revInput) => Properties(fwd) = Properties(rev)
    /\ fwd = calculatePrimerProps(fwdInput, primerConc)
    /\ rev = calculatePrimerProps(revInput, primerConc)

\* two different raw texts of the same valid sequence, one in lower case with
\* a non-letter, at a concentration other than the default
C10_Witness ==
    /\ fwdInput # revInput
    /\ Canonical(fwdInput) = Canonical(revInput)
    /\ "g" \in Range(fwdInput) /\ "1" \in Range(fwdInput)
    /\ "G" \in Range(revInput)
    /\ fwd.isValid /\ fwd.length >= 2
    /\ primerConc = 50

\* the Watson-Crick partner of a base
WatsonCrick(b) ==
    CASE b = "A" -> "T"
      [] b = "T" -> "A"
      [] b = "G" -> "C"
      [] b = "C" -> "G"

\* the non-empty stretches of the cleaned template that consist of bases only
BaseSegments ==
    {s \in {SubSeq(seq, a, b) : a \in 1..Len(seq), b \in 1..Len(seq)} :
        s # <<>> /\ Range(s) \subseteq Bases}

\* C11 (reverse-complement involution): for every sequence s over A, T, G, C,
\* reverseComplement(reverseComplement(s)) = s, the reverse complement has the
\* length of s, and its position k holds the Watson-Crick partner of position
\* length-1-k of s; a retained reverse primer reverse-complements back to the
\* template segment it was read from.
C11_Involution ==
    /\ \A s \in BaseSegments :
           LET r == reverseComplement(s)
           IN  /\ reverseComplement(r) = s
               /\ Len(r) = Len(s)
               /\ \A k \in 1..Len(s) : r[k] = WatsonCrick(s[Len(s) + 1 - k])
    /\ \A c \in Range(reverseCandidates) :
           reverseComplement(c.seq) = substring(seq, c.start, c.end + 1)

\* a template with a stretch that holds all four bases, and a retained reverse
\* primer of two different bases that are not partners of each other
C11_Witness ==
    /\ \E s \in BaseSegments : Range(s) = Bases /\ Len(s) >= 5
    /\ \E c \in Range(reverseCandidates) :
           /\ Len(c.seq) = 2
           /\ c.seq[1] # c.seq[2]
           /\ c.seq[1] # WatsonCrick(c.seq[2])

\* the number of G and C in a sequence
GCCount(s) == Cardinality({k \in 1..Len(s) : s[k] \in {"G", "C"}})

\* the candidates retained by the two scans
Retained == Range(forwardCandidates) \cup Range(reverseCandidates)

\* C12 (GC percent): for every valid sequence gc = (#G + #C) / length * 100
\* (here in hundredths of a percent, to the nearest hundredth) and lies in
\* [0, 100]; it is 100 exactly when every base is G or C and 0 exactly when
\* every base is A or T.
C12_GcPercent ==
    \A c \in Retained :
        LET n == Len(c.cleanSeq)
            gcCount == GCCount(c.cleanSeq)
        IN  /\ c.isValid /\ n > 0
            /\ 2 * Abs(c.gc * n - gcCount * 10000) <= n
            /\ 0 <= c.gc /\ c.gc <= 10000
            /\ c.gc = 10000 <=> gcCount = n
            /\ c.gc = 0 <=> gcCount = 0

\* retained candidates of three bases with one and with two of G and C, one
\* of which holds a C, beside an all-G/C and an all-A/T candidate
C12_Witness ==
    /\ \E c \in Retained : c.length = 3 /\ c.gc = 3333
    /\ \E c \in Retained : c.length = 3 /\ c.gc = 6667 /\ "C" \in Range(c.cleanSeq)
    /\ \E c \in Retained : c.length = 2 /\ c.gc = 10000
    /\ \E c \in Retained : c.length = 3 /\ c.gc = 0

\* template[a..b], both positions 0-based and included
TemplateSlice(a, b) == SubSeq(seq, a + 1, b + 1)

\* the well-formedness of a primer of a pair, as C13 states it
WellFormed(p, strand) ==
    /\ 0 <= p.start /\ p.start <= p.end /\ p.end < Len(seq)
    /\ p.length = p.end - p.start + 1
    /\ config.minLen <= p.length /\ p.length <= config.maxLen
    /\ p.isValid
    /\ p.strand = strand
    /\ p.seq = IF strand = "sense"
               THEN TemplateSlice(p.start, p.end)
               ELSE reverseComplement(TemplateSlice(p.start, p.end))

\* C13 (candidate well-formedness): for every primer p of every returned pair,
\* 0 <= p.start <= p.end < cleaned template length, p.length = p.end -
\* p.start + 1 lies within [minLen, maxLen], p is valid, the forward primer is
\* sense and reads template[start..end], the reverse primer is antisense and
\* reads the reverse complement of template[start..end].
C13_WellFormed ==
    pc = "done" =>
        \A k \in 1..Len(result) :
            /\ WellFormed(result[k].forward, "sense")
            /\ WellFormed(result[k].reverse, "antisense")

\* the primers of the returned pairs
ReturnedPrimers ==
    {result[k].forward : k \in 1..Len(result)} \cup {result[k].reverse : k \in 1..Len(result)}

\* C14 (fixed scoring concentration): every candidate, retained or returned,
\* has the properties of its sequence at 500 nM whatever concentration the page
\* holds; a change of primerConc changes nothing of a design, and a step of a
\* design changes neither primerConc nor the analysis results.
C14_FixedConcentration ==
    /\ [](\A c \in Retained \cup ReturnedPrimers :
              Properties(c) = Properties(calculatePrimerProps(c.seq, 500)))
    /\ [][primerConc' # primerConc => designVars' = designVars]_vars
    /\ [][designVars' # designVars => analysisVars' = analysisVars]_vars

\* a design that returned pairs while the page held another concentration,
\* the analysis results being those of that concentration
C14_Witness ==
    /\ pc = "done" /\ result # <<>>
    /\ primerConc = 50
    /\ fwd.isValid /\ fwd.tmNN # calculatePrimerProps(fwdInput, 500).tmNN
    /\ \E c \in Retained : c.length = 2

\* the storage entry of a zone, by the key the Admin panel gives the zone
EntryOf(zone) == localStorage[ZONES[zone].storageKey]

\* a step leaves the entries and the displayed banners of the zones other
\* than the active one as they were
OtherZonesKept ==
    \A z \in AdZones \ {activeZone} : EntryOf(z)' = EntryOf(z) /\ adImage'[z] = adImage[z]

\* the banner of a zone shows, on each load, what the entry of the zone holds
\* (the placeholder, adImage null, when there is none)
LoadShowsEntry ==
    \A z \in AdZones :
        LoadAd(z) => /\ adImage'[z] = EntryOf(z)
                     /\ \A o \in AdZones \ {z} : adImage'[o] = adImage[o]

\* after Remove the entry of the active zone is absent
RemoveClearsEntry == HandleRemove => EntryOf(activeZone)' = Null /\ OtherZonesKept

\* C15 as stated (banner save/remove per zone): after Save with a selected
\* image the entry of the active zone holds that image; after Remove it is
\* absent; the banner of a zone shows the entry of its zone on its next load;
\* Save and Remove leave the entries and banners of the other zones unchanged.
C15_SaveAlwaysStores ==
    [][/\ HandleSave => EntryOf(activeZone)' = selectedImage /\ OtherZonesKept
       /\ RemoveClearsEntry
       /\ LoadShowsEntry]_vars

\* C15 amended: after Save with a selected image either the write succeeded,
\* the status is a success and the entry of the active zone holds that image,
\* or setItem threw, the status is an error and no entry changed; after Remove
\* the entry of the active zone is absent; the banner of a zone shows the
\* entry of its zone on its next load; Save and Remove leave the entries and
\* banners of the other zones unchanged.
C15_SaveStoresOrFails ==
    [][/\ HandleSave =>
              /\ \/ status'.type = "success" /\ EntryOf(activeZone)' = selectedImage
                 \/ status'.type = "error" /\ localStorage' = localStorage
              /\ OtherZonesKept
       /\ RemoveClearsEntry
       /\ LoadShowsEntry]_vars

\* the footer banner was removed and still shows its old image, the hero
\* banner shows its saved image, the middle entry holds another image
C15_Witness ==
    /\ status = [type |-> "success", msg |-> "Footer removed."]
    /\ EntryOf("footer") = Null /\ adImage["footer"] = "data:B"
    /\ EntryOf("hero") = "data:A" /\ adImage["hero"] = "data:A"
    /\ EntryOf("middle") = "data:B" /\ adImage["middle"] = Null

\* C16 (upload size limit): an upload of a file larger than 2 MB sets an error
\* status and changes nothing else: the selected image, the saved banner, the
\* storage entries and the banners stay, and no file read is started.
C16_LargeUploadRejected ==
    [][\A file \in Files :
           HandleImageUpload(file) /\ file.size > 2097152 =>
               /\ status'.type = "error"
               /\ selectedImage' = selectedImage
               /\ currentBanner' = currentBanner
               /\ localStorage' = localStorage
               /\ reading' = reading
               /\ adImage' = adImage
               /\ activeZone' = activeZone]_vars

\* an upload was rejected while the editor holds an unsaved image other than
\* the saved banner; no read is in flight
C16_Witness ==
    /\ status.type = "error"
    /\ status.msg = "Image is too large for local storage demo. Please use an image under 2MB."
    /\ selectedImage = "data:B"
    /\ currentBanner = "data:A"
    /\ EntryOf(activeZone) = "data:A"
    /\ ReadingCount = 0

\* the clamp penalty as C17 states it, in thousandths: 0 when the sequence of
\* the primer ends in G or C, 2 otherwise
ClampOf(p) ==
    IF p.seq # <<>> /\ p.seq[Len(p.seq)] \in {"G", "C"} THEN 0 ELSE 2000

\* the score of a pair without its clamp penalties, in thousandths
BaseScore(p) ==
    10 * (Abs(p.forward.tmNN - config.optTm) + Abs(p.reverse.tmNN - config.optTm))
        + 20 * Abs(p.forward.tmNN - p.reverse.tmNN)
        + (Abs(p.forward.gc - 5000) + Abs(p.reverse.gc - 5000))

\* C17 (score formula): for every constructed pair, score = |f.tmNN - optTm| +
\* |r.tmNN - optTm| + 2 * tmDiff + 0.1 * (|f.gc - 50| + |r.gc - 50|) +
\* clampPenalty(f) + clampPenalty(r); the score is not negative, and two pairs
\* that differ only in that one has both clamps and the other none differ by 4.
C17_ScoreFormula ==
    /\ \A k \in 1..Len(pairs) :
           LET p == pairs[k]
           IN  /\ p.tmDiff = Abs(p.forward.tmNN - p.reverse.tmNN)
               /\ p.score = BaseScore(p) + ClampOf(p.forward) + ClampOf(p.reverse)
               /\ p.score >= 0
    /\ \A p, q \in Range(pairs) :
           /\ BaseScore(p) = BaseScore(q)
           /\ ClampOf(p.forward) = 0 /\ ClampOf(p.reverse) = 0
           /\ ClampOf(q.forward) = 2000 /\ ClampOf(q.reverse) = 2000
           => q.score = p.score + 4000

\* two constructed pairs that differ in the clamps only, one with both and
\* one with none, beside a pair with a Tm difference, a pair with one clamp
\* and a primer whose GC percentage is not 50
C17_Witness ==
    /\ pc = "done"
    /\ \E p, q \in Range(pairs) :
           /\ BaseScore(p) = BaseScore(q)
           /\ ClampOf(p.forward) = 0 /\ ClampOf(p.reverse) = 0
           /\ ClampOf(q.forward) = 2000 /\ ClampOf(q.reverse) = 2000
    /\ \E p \in Range(pairs) : p.tmDiff > 0
    /\ \E p \in Range(pairs) : ClampOf(p.forward) # ClampOf(p.reverse)
    /\ \E p \in Range(pairs) : p.forward.gc # 5000 \/ p.reverse.gc # 5000

\* the scans of both loops have ended and the call did not return early
FwdScanDone == pc \in {"revOuter", "revInner", "pair", "rank"} \/ (pc = "done" /\ Len(seq) >= config.minProd)
RevScanDone == pc \in {"pair", "rank"} \/ (pc = "done" /\ Len(seq) >= config.minProd)

\* C18 (forward-candidate enumeration): a forward candidate is considered for
\* every start index i from 0 to length - minProd, both included, and every
\* length l in [minLen, maxLen] with i + l <= length.
C18_ForwardEnumeration ==
    FwdScanDone =>
        \A a \in 0..(Len(seq) - config.minProd) :
            \A b \in config.minLen..config.maxLen :
                a + b <= Len(seq) => <<a, b>> \in fwdScanned

\* C19 (reverse-candidate enumeration): for every end index i from minProd to
\* length - 1 and every length l in [minLen, maxLen] for which a template
\* segment of length l ending at i exists (i - l + 1 >= 0, the segment that
\* starts at position 0 included), that segment is considered.
C19_ReverseEnumeration ==
    RevScanDone =>
        \A a \in config.minProd..(Len(seq) - 1) :
            \A b \in config.minLen..config.maxLen :
                b >= 1 /\ a - b + 1 >= 0 => <<a, b>> \in revScanned

\* the properties of the forward candidate considered at start a with length
\* b, and of the reverse candidate considered at end a with length b
FwdProps(a, b) == calculatePrimerProps(substring(seq, a, a + b), 500)
RevProps(a, b) ==
    calculatePrimerProps(reverseComplement(substring(seq, a - b + 1, a + 1)), 500)

\* valid, with tmNN in [minTm - 5, maxTm + 5]
InWidenedWindow(props) ==
    /\ props.isValid
    /\ config.minTm - 500 <= props.tmNN
    /\ props.tmNN <= config.maxTm + 500

FwdRetained(a, b) ==
    \E c \in Range(forwardCandidates) : c.start = a /\ c.end = a + b - 1
RevRetained(a, b) ==
    \E c \in Range(reverseCandidates) : c.start = a - b + 1 /\ c.end = a

\* a considered candidate with properties props is retained exactly when it is
\* valid with tmNN in the widened window, and so whenever it is valid with
\* tmNN in [minTm, maxTm]
FilterHolds(props, retained) ==
    /\ retained <=> InWidenedWindow(props)
    /\ props.isValid /\ config.minTm <= props.tmNN /\ props.tmNN <= config.maxTm
          => retained

\* C20 (two-stage Tm filter): a considered candidate is retained exactly when
\* it is valid and its tmNN lies in [minTm - 5, maxTm + 5]; so every considered
\* candidate with tmNN in [minTm, maxTm] is retained; the strict window is
\* applied at pairing: every constructed pair has both tmNN in [minTm, maxTm].
C20_TwoStageFilter ==
    /\ \A x \in fwdScanned :
           FilterHolds(FwdProps(x[1], x[2]), FwdRetained(x[1], x[2]))
    /\ \A x \in revScanned :
           FilterHolds(RevProps(x[1], x[2]), RevRetained(x[1], x[2]))
    /\ \A c \in Retained : InWidenedWindow(c)
    /\ \A p \in Range(pairs) :
           /\ config.minTm <= p.forward.tmNN /\ p.forward.tmNN <= config.maxTm
           /\ config.minTm <= p.reverse.tmNN /\ p.reverse.tmNN <= config.maxTm

\* a returned call with pairs in which a considered candidate was invalid with
\* its tmNN of 0 inside the widened window and was dropped, a valid one
\* outside the widened window was dropped, and one of each strand was
\* retained although outside the strict window
C20_Witness ==
    /\ pc = "done" /\ pairs # <<>>
    /\ \E x \in fwdScanned :
           /\ ~FwdProps(x[1], x[2]).isValid
           /\ config.minTm - 500 <= 0 /\ 0 <= config.maxTm + 500
           /\ ~FwdRetained(x[1], x[2])
    /\ \E x \in revScanned :
           /\ RevProps(x[1], x[2]).isValid
           /\ RevProps(x[1], x[2]).tmNN < config.minTm - 500
           /\ ~RevRetained(x[1], x[2])
    /\ \E c \in Range(forwardCandidates) : c.tmNN < config.minTm
    /\ \E c \in Range(reverseCandidates) : c.tmNN < config.minTm

----------------------------------------------------------------------------
\* |tmNN - optTm| of a candidate
TmDistance(c) == Abs(c.tmNN - config.optTm)

\* top holds Min(300, Len(list)) different entries of list, and no entry of
\* list left out of top is strictly closer to optTm than an entry of top
KeepsClosest(list, top) ==
    /\ Len(top) <= 300
    /\ Len(top) = Min(Len(list), 300)
    /\ Cardinality(Range(top)) = Len(top)
    /\ Range(top) \subseteq Range(list)
    /\ \A d \in Range(list) \ Range(top) : \A k \in Range(top) :
           ~(TmDistance(d) < TmDistance(k))

\* C21: at lines 144-181 each candidate list, as the scans left it, is cut
\* to at most 300 entries, no discarded candidate is strictly closer to
\* optTm than a kept one of its list, and the pairs are built from kept
\* entries only: at most 300 x 300 combinations are examined.
C21_Truncation ==
    [][pc = "pair" /\ pc' = "rank" =>
          /\ KeepsClosest(forwardCandidates, topFwd')
          /\ KeepsClosest(reverseCandidates, topRev')
          /\ Len(topFwd') * Len(topRev') <= 300 * 300
          /\ Len(pairs') <= Len(topFwd') * Len(topRev')
          /\ \A p \in Range(pairs') :
                 p.forward \in Range(topFwd') /\ p.reverse \in Range(topRev')]_vars

\* both lists were longer than 300 and cut, a discarded candidate on each
\* strand is strictly farther from optTm than a kept one, and kept
\* candidates were paired
C21_Witness ==
    /\ pc = "rank"
    /\ Len(forwardCandidates) > 300 /\ Len(topFwd) = 300
    /\ Len(reverseCandidates) > 300 /\ Len(topRev) = 300
    /\ \E d \in Range(forwardCandidates) \ Range(topFwd) :
           \E k \in Range(topFwd) : TmDistance(k) < TmDistance(d)
    /\ \E d \in Range(reverseCandidates) \ Range(topRev) :
           \E k \in Range(topRev) : TmDistance(k) < TmDistance(d)
    /\ pairs # <<>>

----------------------------------------------------------------------------
Dinucleotides == Bases \X Bases

\* the number of windows of s that read the dinucleotide p
WindowCount(s, p) == Cardinality({k \in 1..(Len(s) - 1) : <<s[k], s[k + 1]>> = p})

RECURSIVE TableSum(_, _, _)
\* the table entries of the dinucleotides P, each times its windows in s
TableSum(s, P, field) ==
    IF P = {} THEN 0
    ELSE LET p == CHOOSE x \in P : TRUE
         IN  WindowCount(s, p) * NN_PARAMS[p][field] + TableSum(s, P \ {p}, field)

\* the initiation term a terminal base chooses
EndTerm(base) == IF base \in {"G", "C"} THEN NN_INIT_GC ELSE NN_INIT_AT

\* C22 (nearest-neighbor accumulation): the table has an entry for each of
\* the 16 dinucleotides, and for every valid sequence of length n >= 1 the
\* accumulated dH and dS are the initiation term of the first base plus the
\* initiation term of the last base plus the table entries of the n - 1
\* windows; tmNN is computed from these sums.
C22_Accumulation ==
    /\ DOMAIN NN_PARAMS = Dinucleotides
    /\ Cardinality(DOMAIN NN_PARAMS) = 16
    /\ pc = "pair" =>
          \A c \in Retained :
              LET s == c.cleanSeq
                  n == Len(s)
                  dH == EndTerm(s[1]).dH + EndTerm(s[n]).dH + TableSum(s, Dinucleotides, "dH")
                  dS == EndTerm(s[1]).dS + EndTerm(s[n]).dS + TableSum(s, Dinucleotides, "dS")
              IN  /\ c.isValid /\ n >= 1
                  /\ Accumulated(s) = [dH |-> dH, dS |-> dS]
                  /\ c.tmNN = NNKelvin(dH, dS, 500) - 27315 + SaltCorr

\* the scans are over; single bases of both kinds were analysed, a sequence
\* whose ends choose different initiation terms, and every one of the 16
\* dinucleotides is a window of some candidate
C22_Witness ==
    /\ pc = "pair"
    /\ \E c \in Retained : c.cleanSeq = <<"G">>
    /\ \E c \in Retained : c.cleanSeq = <<"A">>
    /\ \E c \in Retained :
           c.length >= 3 /\ c.cleanSeq[1] \in {"G", "C"} /\ c.cleanSeq[c.length] \in {"A", "T"}
    /\ \A p \in Dinucleotides : \E c \in Retained : WindowCount(c.cleanSeq, p) >= 1

----------------------------------------------------------------------------
\* the pairing constraints on a forward and a reverse candidate
Viable(f, r) ==
    /\ r.end > f.start
    /\ config.minProd <= r.end - f.start + 1
    /\ r.end - f.start + 1 <= config.maxProd
    /\ config.minTm <= f.tmNN /\ f.tmNN <= config.maxTm
    /\ config.minTm <= r.tmNN /\ r.tmNN <= config.maxTm
    /\ Abs(f.tmNN - r.tmNN) <= 500

Constructed(f, r) == \E p \in Range(pairs) : p.forward = f /\ p.reverse = r

\* the forward and reverse candidates the scans computed from valid segments
ValidFwd ==
    {Candidate(FwdProps(x[1], x[2]), x[1], x[1] + x[2] - 1, "sense") :
        x \in {y \in fwdScanned : FwdProps(y[1], y[2]).isValid}}
ValidRev ==
    {Candidate(RevProps(x[1], x[2]), x[1] - x[2] + 1, x[1], "antisense") :
        x \in {y \in revScanned : RevProps(y[1], y[2]).isValid}}

\* C23 (completeness below the cap): once the pairing stage has run on lists
\* of at most 300 entries, every viable pair of entries of the two lists is
\* constructed, no viable pair of valid enumerated candidates was lost to the
\* pre-filter, and the returned array is empty only when no viable pair exists.
C23_Completeness ==
    (pc \in {"rank", "done"}
        /\ Len(forwardCandidates) <= 300 /\ Len(reverseCandidates) <= 300) =>
        /\ \A f \in Range(forwardCandidates) : \A r \in Range(reverseCandidates) :
               Viable(f, r) => Constructed(f, r)
        /\ \A f \in ValidFwd : \A r \in ValidRev : Viable(f, r) => Constructed(f, r)
        /\ (pc = "done" /\ result = <<>>) =>
               ~ \E f \in ValidFwd : \E r \in ValidRev : Viable(f, r)

\* a design has returned pairs, among them one of product size 2, while
\* other combinations of its candidates were not viable and one retained
\* candidate lies outside the strict window
C23_Witness ==
    /\ pc = "done"
    /\ result # <<>>
    /\ \E p \in Range(pairs) : p.productSize = 2
    /\ \E f \in Range(forwardCandidates) : \E r \in Range(reverseCandidates) :
           ~Viable(f, r)
    /\ \E c \in Retained : c.tmNN < config.minTm \/ c.tmNN > config.maxTm

----------------------------------------------------------------------------
\* C24 (primers inside the amplicon): in every returned pair
\* forward.start <= forward.end < reverse.start <= reverse.end.
C24_InsideAmplicon ==
    pc = "done" =>
        \A p \in Range(result) :
            /\ p.forward.start <= p.forward.end
            /\ p.forward.end < p.reverse.start
            /\ p.reverse.start <= p.reverse.end

----------------------------------------------------------------------------
\* line 260: designResults.find(p => p.id === selectedPairId), the first
\* entry of that id
find(results, id) ==
    IF \E k \in 1..Len(results) : results[k].id = id
    THEN results[CHOOSE k \in 1..Len(results) :
                    /\ results[k].id = id
                    /\ \A j \in 1..(k - 1) : results[j].id # id]
    ELSE Null

\* C25 (unique pair identity): no two pairs of a returned array have the
\* same id, so the pair displayed after a click on row k (the pair found by
\* the id of row k) is the pair of row k.
C25_UniqueIds ==
    pc = "done" =>
        /\ \A j, k \in 1..Len(result) : result[j].id = result[k].id => j = k
        /\ \A k \in 1..Len(result) : find(result, result[k].id) = result[k]

----------------------------------------------------------------------------
\* the runs started by handleDesign that have not completed
PendingRuns == Len(timeouts) + (IF inCallback THEN 1 ELSE 0)

\* a step of handleDesign: a callback is handed to setTimeout
RunStarts == Len(timeouts') > Len(timeouts)

\* a step that ends a callback
RunCompletes == inCallback /\ ~inCallback'

\* C26 (design run lifecycle): a run is started with a non-empty template,
\* sets isDesigning and clears designResults; its callback calls designPrimers
\* with the template and configuration captured at the start; when it
\* completes, isDesigning is false, designResults is the returned array and,
\* if that is not empty, selectedPairId is the id of its first pair, which
\* has the lowest score; while isDesigning is true Generate is disabled and
\* exactly one run is pending, otherwise none; and every run completes.
\* The callback runs alone and is deterministic, so it completes unless it
\* comes back to a state it has been in: completion is stated as progress of
\* the scanning loops, every pass of a loop changes its counter.
C26_Lifecycle ==
    /\ [][RunStarts =>
             /\ templateInput # <<>>
             /\ isDesigning' /\ designResults' = <<>>
             /\ timeouts'[Len(timeouts')] =
                    [template |-> templateInput, config |-> designConfig]]_vars
    /\ [][~inCallback /\ inCallback' =>
             /\ template' = Head(timeouts).template
             /\ config' = Head(timeouts).config]_vars
    /\ [][inCallback /\ inCallback' => template' = template /\ config' = config]_vars
    /\ [][RunCompletes =>
             /\ pc = "done"
             /\ ~isDesigning'
             /\ designResults' = result
             /\ result # <<>> =>
                    /\ selectedPairId' = result[1].id
                    /\ \A k \in 1..Len(result) : result[1].score <= result[k].score]_vars
    /\ [](isDesigning => GenerateDisabled /\ PendingRuns = 1)
    /\ [](~isDesigning => PendingRuns = 0)
    /\ [][inCallback /\ pc = "fwdInner" /\ pc' = "fwdInner" => l' # l]_vars
    /\ [][inCallback /\ pc = "fwdInner" /\ pc' = "fwdOuter" => i' # i]_vars
    /\ [][inCallback /\ pc = "revInner" /\ pc' = "revInner" => l' # l]_vars
    /\ [][inCallback /\ pc = "revInner" /\ pc' = "revOuter" => i' # i]_vars

----------------------------------------------------------------------------
\* a step that changes the phase of the interval timer from a to b
PhaseStep(a, b) == interval.phase = a /\ interval'.phase = b

\* C27 (interval timer phase order): in a run started from IDLE and left
\* alone, the phase changes only from IDLE to WORK of cycle 1, from WORK to
\* REST while the cycle is not the last one, from the WORK of the last cycle
\* to FINISHED, and from REST to WORK; currentCycle changes only on a step
\* from REST to WORK, which adds one; it is at least 1 and at most
\* totalCycles in every state, and equal to totalCycles in FINISHED, so that
\* totalCycles WORK phases and totalCycles - 1 REST phases have occurred by
\* then; a frame that finds the time of WORK or REST expired ends the phase.
C27_PhaseOrder ==
    /\ [](/\ 1 <= interval.currentCycle
          /\ interval.currentCycle <= totalCycles(interval))
    /\ [](interval.phase = "FINISHED" =>
              interval.currentCycle = totalCycles(interval))
    /\ [][interval'.phase # interval.phase =>
             \/ PhaseStep("IDLE", "WORK") /\ interval'.currentCycle = 1
             \/ /\ PhaseStep("WORK", "REST")
                /\ interval.currentCycle < totalCycles(interval)
             \/ /\ PhaseStep("WORK", "FINISHED")
                /\ interval.currentCycle = totalCycles(interval)
             \/ PhaseStep("REST", "WORK")]_vars
    /\ [][PhaseStep("REST", "WORK") =>
             interval'.currentCycle = interval.currentCycle + 1]_vars
    /\ [][interval'.currentCycle # interval.currentCycle =>
             PhaseStep("REST", "WORK")]_vars
    /\ [][/\ IntervalUpdate
          /\ ViewIsRunning(interval)
          /\ now >= interval.endTimeRef
          => interval'.phase # interval.phase]_vars

\* a run of three cycles has finished
C27_Witness ==
    /\ interval.phase = "FINISHED"
    /\ totalCycles(interval) = 3
    /\ interval.currentCycle = 3

\* C28 (interval timer pause and resume): a click on Pause in WORK or REST
\* stops the countdown and leaves a state in which the view does not report
\* the timer as running and renders the Start/Resume button; a click on that
\* button in WORK or REST keeps the phase and the cycle and counts down from
\* the time that was left.
C28_PauseResume ==
    /\ [][IntervalPause /\ (interval.phase = "WORK" \/ interval.phase = "REST") =>
             /\ ~interval'.rafRef
             /\ ~ViewIsRunning(interval')
             /\ StartOffered(interval')]_vars
    /\ [][IntervalStart /\ (interval.phase = "WORK" \/ interval.phase = "REST") =>
             /\ interval'.phase = interval.phase
             /\ interval'.currentCycle = interval.currentCycle
             /\ interval'.endTimeRef = now + interval.timeLeft
             /\ interval'.rafRef]_vars

\* C29 (countdown invariant): timeLeft is never negative; isComplete implies
\* timeLeft = 0 and not isRunning; start changes nothing when timeLeft <= 0
\* or when the timer is running; pause leaves timeLeft unchanged; reset and
\* setDuration leave the timer neither running nor complete.
C29_CountdownInvariant ==
    /\ [](countdown.timeLeft >= 0)
    /\ [](countdown.isComplete =>
              countdown.timeLeft = 0 /\ ~countdown.isRunning)
    /\ [][CountdownStart /\ (countdown.timeLeft <= 0 \/ countdown.isRunning) =>
             countdown' = countdown]_vars
    /\ [][CountdownPause => countdown'.timeLeft = countdown.timeLeft]_vars
    /\ [][CountdownReset \/ CountdownSetDuration =>
             ~countdown'.isRunning /\ ~countdown'.isComplete]_vars

\* a countdown that was started has run out
C29_Witness ==
    /\ countdown.isComplete
    /\ countdown.timeLeft = 0
    /\ now >= countdown.endTimeRef
    /\ countdown.endTimeRef > 0

----------------------------------------------------------------------------
\* C30 (no cross-zone upload race): with every file uploaded while its own
\* zone is active, the image in the editor is in every state null, the saved
\* banner of the active zone, or an image uploaded for the active zone; and
\* no zone's entry of the storage ever holds an image uploaded for another
\* zone.
C30_NoCrossZoneRace ==
    /\ \/ selectedImage = Null
       \/ selectedImage = getItem(SaveKey(activeZone))
       \/ ZoneOf(selectedImage) = activeZone
    /\ \A z \in AdZones :
           getItem(SaveKey(z)) # Null => ZoneOf(getItem(SaveKey(z))) = z

====
